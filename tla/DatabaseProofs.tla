---------------------------- MODULE DatabaseProofs ----------------------------
(***************************************************************************)
(* What the storage engine keeps true for every catalog, every workload    *)
(* and every bound: its trees and counts say the same thing, its readers   *)
(* agree, its point path is its planner, it reports what it commits, its   *)
(* unique values stay unique, and what it commits of a transaction is what *)
(* the transaction saw.                                                    *)
(* The parts: what a batch of rows does to the trees, what a statement and *)
(* a script do to a candidate, what a commit writes of a transaction, and  *)
(* one lemma for each action of the engine.                                *)
(***************************************************************************)
EXTENDS Database, StagingProofs
-----------------------------------------------------------------------------
(* A new transaction. *)

\* A new transaction sees the committed rows.
SeesCommitted(storage, x) ==
    TxnOK(storage, x) /\ \A t \in Tables : \A k : Lookup(storage, x, t, k) = CommittedRow(storage, t, k)

\* A transaction begun at the revision of a storage is sound over it.
LEMMA NewTransactionOK ==
    ASSUME NEW storage, NEW x, x = NewTransaction(storage.revision)
    PROVE  SeesCommitted(storage, x)
<1>1. /\ x = [base |-> x.base, tables |-> x.tables, touched |-> x.touched, keys |-> x.keys,
            bytes |-> x.bytes, operations |-> x.operations, changed |-> x.changed,
            claims |-> x.claims]
      /\ x.base = storage.revision /\ x.tables = [t \in Tables |-> NoOverlay]
      /\ x.changed = [t \in Tables |-> 0] /\ x.claims = <<>>
  BY DEF NewTransaction
<1> DEFINE o == NoOverlay
<1>2. /\ o = [rows |-> o.rows, deletes |-> o.deletes, order |-> o.order, sorted |-> o.sorted]
      /\ o.rows = <<>> /\ o.order = <<>> /\ o.deletes = 0 /\ o.sorted = 0
  BY DEF NoOverlay
<1> HIDE DEF o
<1>3. KeysIn(o) = {} /\ DeletedKeys(o) = {} /\ ChangedKeysIn(o) = {}
  BY <1>2 DEF KeysIn, DeletedKeys, ChangedKeysIn
<1>4. Cardinality({}) = 0
  BY FS_EmptySet
<1>5. OrderOK(o)
  BY <1>2 DEF OrderOK, Range
<1>6. \A t \in Tables : OverlayOK(storage, t, o)
  BY <1>2, <1>3, <1>4, <1>5 DEF OverlayOK, EntriesOK
<1>7. \A t \in Tables : x.tables[t] = o
  BY <1>1 DEF o
<1>8. x.changed = [t \in Tables |-> Cardinality(ChangedKeysIn(x.tables[t]))]
  BY <1>1, <1>3, <1>4, <1>7
<1>9. x.tables = [t \in Tables |-> x.tables[t]]
  BY <1>1
<1>10. TxnOK(storage, x)
  <2>1. \A t \in Tables : \A k, s : ~ClaimedBy(x.tables, t, k, s)
    BY <1>3, <1>7 DEF ClaimedBy
  <2>2. DOMAIN x.claims = {}
    BY <1>1
  <2>3. ClaimsOK(storage, x.tables, x.claims)
    BY <2>1, <2>2 DEF ClaimsOK
  <2> QED
    BY <1>1, <1>2, <1>6, <1>7, <1>8, <1>9, <2>3 DEF TxnOK
<1> QED
  BY <1>3, <1>7, <1>10 DEF SeesCommitted, Lookup

-----------------------------------------------------------------------------
(* Writing rows. *)

\* The rows to write to a table: each key once, with the row committed under it.
RowsToWrite(storage, t, rows) ==
    /\ Len(rows) \in Nat /\ DOMAIN rows = 1..Len(rows)
    /\ \A i \in DOMAIN rows :
        /\ rows[i].key \in Keys(t)
        /\ rows[i].next \in Under(t, rows[i].key)
        /\ rows[i].old = CommittedRow(storage, t, rows[i].key)
    /\ KeysDiffer(rows, Len(rows))

\* The row under a key once they are written.
Written(storage, t, rows, k) ==
    IF \E i \in DOMAIN rows : rows[i].key = k
    THEN rows[CHOOSE i \in DOMAIN rows : rows[i].key = k].next ELSE CommittedRow(storage, t, k)

\* The written rows are found under their keys, and the others are as they were.
LEMMA WrittenIs ==
    ASSUME NEW storage, NEW t, NEW rows, RowsToWrite(storage, t, rows)
    PROVE  /\ \A i \in DOMAIN rows : Written(storage, t, rows, rows[i].key) = rows[i].next
           /\ \A k : (\A i \in DOMAIN rows : rows[i].key # k) =>
                Written(storage, t, rows, k) = CommittedRow(storage, t, k)
BY DEF RowsToWrite, Written, KeysDiffer

\* Written, the rows of the table take no value twice.
KeepsUnique(storage, t, rows) ==
    \A s, k, j : Takes(t, Written(storage, t, rows, k), s) /\ Takes(t, Written(storage, t, rows, j), s) => k = j

\* The parts of a write: the rows it leaves, those it takes away, and what they were before.
LiveAt(rows) == {i \in DOMAIN rows : rows[i].next # NoRow}
GoneAt(rows) == {i \in DOMAIN rows : rows[i].next = NoRow}
InsertedAt(rows) == {i \in LiveAt(rows) : rows[i].old = NoRow}
RemovedAt(rows) == {i \in GoneAt(rows) : rows[i].old # NoRow}
RowsAreMet(storage, t, rows) ==
    /\ Cardinality(InsertedAt(rows))
        = Cardinality({i \in LiveAt(rows) : rows[i].key \notin DOMAIN storage.rows[t]})
    /\ Cardinality(RemovedAt(rows))
        = Cardinality({i \in GoneAt(rows) : rows[i].key \in DOMAIN storage.rows[t]})
IndexesAreMet(storage, t, rows) ==
    \A x \in TableIndexes(t) :
        /\ IndexBatch(x, rows).removes \subseteq storage.entries[x]
        /\ IndexBatch(x, rows).adds \cap storage.entries[x] = {}
KeysLeft(storage, t, rows) ==
    (DOMAIN storage.rows[t] \ {rows[i].key : i \in GoneAt(rows)}) \cup {rows[i].key : i \in LiveAt(rows)}
RowsLeft(storage, t, rows) ==
    [k \in KeysLeft(storage, t, rows) |->
        IF \E i \in LiveAt(rows) : rows[i].key = k
        THEN rows[CHOOSE i \in LiveAt(rows) : rows[i].key = k].next ELSE storage.rows[t][k]]
EntriesLeft(storage, t, rows) ==
    [x \in Indexes |-> IF x \notin TableIndexes(t) THEN storage.entries[x]
        ELSE (storage.entries[x] \ IndexBatch(x, rows).removes) \cup IndexBatch(x, rows).adds]
CountsLeft(storage, t, rows) ==
    [x \in Indexes |-> IF x \notin TableIndexes(t) THEN storage.entryCounts[x]
        ELSE storage.entryCounts[x] + Cardinality(IndexBatch(x, rows).adds)
                - Cardinality(IndexBatch(x, rows).removes)]
StorageLeft(storage, t, rows) ==
    [revision |-> storage.revision,
     rows |-> [storage.rows EXCEPT ![t] = RowsLeft(storage, t, rows)],
     counts |-> [storage.counts EXCEPT
        ![t] = storage.counts[t] + Cardinality(InsertedAt(rows)) - Cardinality(RemovedAt(rows))],
     entries |-> EntriesLeft(storage, t, rows),
     entryCounts |-> CountsLeft(storage, t, rows)]

\* A batch the trees meet is written.
LEMMA ApplyRowChangesIs ==
    ASSUME NEW storage, StorageOK(storage), NEW t \in Tables, NEW rows,
           RowsAreMet(storage, t, rows), IndexesAreMet(storage, t, rows)
    PROVE  ApplyRowChanges(storage, t, rows)
             = [error |-> "none", db |-> StorageLeft(storage, t, rows)]
<1> DEFINE R == RowsLeft(storage, t, rows)
           i == Cardinality(InsertedAt(rows))
           d == Cardinality(RemovedAt(rows))
           E == EntriesLeft(storage, t, rows)
           C == CountsLeft(storage, t, rows)
<1>1. ApplyRowChanges(storage, t, rows)
        = [error |-> "none",
           db |-> [storage EXCEPT !.rows[t] = R, !.counts[t] = @ + i - d,
                                  !.entries = E, !.entryCounts = C]]
  BY DEF ApplyRowChanges, RowsAreMet, IndexesAreMet, LiveAt, GoneAt, InsertedAt, RemovedAt,
         KeysLeft, RowsLeft, EntriesLeft, CountsLeft
<1>2. storage = [revision |-> storage.revision, rows |-> storage.rows, counts |-> storage.counts,
             entries |-> storage.entries, entryCounts |-> storage.entryCounts]
      /\ t \in DOMAIN storage.rows /\ t \in DOMAIN storage.counts
  BY DEF StorageOK
<1> HIDE DEF R, i, d, E, C
<1>3. [storage EXCEPT !.rows[t] = R, !.counts[t] = @ + i - d, !.entries = E, !.entryCounts = C]
        = [revision |-> storage.revision,
           rows |-> [storage.rows EXCEPT ![t] = R],
           counts |-> [storage.counts EXCEPT ![t] = storage.counts[t] + i - d],
           entries |-> E, entryCounts |-> C]
  <2> DEFINE N == [storage.rows EXCEPT ![t] = R]
             M == [storage.counts EXCEPT ![t] = storage.counts[t] + i - d]
  <2>1. [storage EXCEPT !.rows[t] = R, !.counts[t] = @ + i - d, !.entries = E, !.entryCounts = C]
          = [storage EXCEPT !.rows = N, !.counts = M, !.entries = E, !.entryCounts = C]
    <3>1. ASSUME NEW v
          PROVE  [storage EXCEPT !.rows[t] = R, !.counts[t] = v, !.entries = E, !.entryCounts = C]
                  = [storage EXCEPT !.rows = N, !.counts = [storage.counts EXCEPT ![t] = v],
                                    !.entries = E, !.entryCounts = C]
      BY <1>2
    <3> QED
      BY <3>1
  <2> HIDE DEF N, M
  <2>2. [storage EXCEPT !.rows = N, !.counts = M, !.entries = E, !.entryCounts = C]
          = [revision |-> storage.revision, rows |-> N, counts |-> M, entries |-> E, entryCounts |-> C]
    <3>1. ASSUME NEW r,
                 r = [storage EXCEPT !.rows = N, !.counts = M, !.entries = E, !.entryCounts = C]
          PROVE  r = [revision |-> storage.revision, rows |-> N, counts |-> M, entries |-> E,
                      entryCounts |-> C]
      BY <1>2, <3>1
    <3> QED
      BY <3>1
  <2> QED
    BY <2>1, <2>2 DEF N, M
<1> QED
  BY <1>1, <1>3 DEF StorageLeft, R, i, d, E, C

\* The trees hold what the changes say they replace.
LEMMA RowsMet ==
    ASSUME NEW storage, StorageOK(storage), NEW t \in Tables, NEW rows, RowsToWrite(storage, t, rows)
    PROVE  RowsAreMet(storage, t, rows)
<1>1. \A i \in DOMAIN rows : rows[i].old = NoRow <=> rows[i].key \notin DOMAIN storage.rows[t]
  BY CommittedRowIs DEF RowsToWrite
<1>2. InsertedAt(rows) = {i \in LiveAt(rows) : rows[i].key \notin DOMAIN storage.rows[t]}
  BY <1>1 DEF InsertedAt, LiveAt
<1>3. RemovedAt(rows) = {i \in GoneAt(rows) : rows[i].key \in DOMAIN storage.rows[t]}
  BY <1>1 DEF RemovedAt, GoneAt
<1> QED
  BY <1>2, <1>3 DEF RowsAreMet

\* The rows left are the rows written and the others.
LEMMA RowsLeftAre ==
    ASSUME NEW storage, StorageOK(storage), NEW t \in Tables, NEW rows, RowsToWrite(storage, t, rows)
    PROVE  /\ \A k : k \in KeysLeft(storage, t, rows) <=> Written(storage, t, rows, k) # NoRow
           /\ \A k \in KeysLeft(storage, t, rows) :
                RowsLeft(storage, t, rows)[k] = Written(storage, t, rows, k)
           /\ \A k : Written(storage, t, rows, k) \in Under(t, k)
<1> DEFINE D == DOMAIN storage.rows[t]
<1>1. ASSUME NEW i \in DOMAIN rows
      PROVE  /\ Written(storage, t, rows, rows[i].key) = rows[i].next
             /\ rows[i].key \in KeysLeft(storage, t, rows) <=> rows[i].next # NoRow
             /\ rows[i].next # NoRow => RowsLeft(storage, t, rows)[rows[i].key] = rows[i].next
             /\ rows[i].next \in Under(t, rows[i].key)
  <2>1. Written(storage, t, rows, rows[i].key) = rows[i].next
    BY WrittenIs
  <2>2. \A j \in DOMAIN rows : rows[j].key = rows[i].key => j = i
    BY DEF RowsToWrite, KeysDiffer
  <2>3. rows[i].key \in KeysLeft(storage, t, rows) <=> rows[i].next # NoRow
    BY <2>2 DEF KeysLeft, LiveAt, GoneAt
  <2>4. ASSUME rows[i].next # NoRow
        PROVE  RowsLeft(storage, t, rows)[rows[i].key] = rows[i].next
    <3>1. i \in LiveAt(rows) /\ \A j \in LiveAt(rows) : rows[j].key = rows[i].key => j = i
      BY <2>2, <2>4 DEF LiveAt
    <3>2. (CHOOSE j \in LiveAt(rows) : rows[j].key = rows[i].key) = i
      BY <3>1
    <3> QED
      BY <2>3, <2>4, <3>1, <3>2 DEF RowsLeft
  <2>5. rows[i].next \in Under(t, rows[i].key)
    BY DEF RowsToWrite
  <2> QED
    BY <2>1, <2>3, <2>4, <2>5
<1>2. ASSUME NEW k, \A i \in DOMAIN rows : rows[i].key # k
      PROVE  /\ Written(storage, t, rows, k) = CommittedRow(storage, t, k)
             /\ k \in KeysLeft(storage, t, rows) <=> k \in D
             /\ k \in D => RowsLeft(storage, t, rows)[k] = storage.rows[t][k]
  <2>1. Written(storage, t, rows, k) = CommittedRow(storage, t, k)
    BY <1>2, WrittenIs
  <2>2. k \in KeysLeft(storage, t, rows) <=> k \in D
    BY <1>2 DEF KeysLeft, LiveAt, GoneAt
  <2>3. k \in D => RowsLeft(storage, t, rows)[k] = storage.rows[t][k]
    BY <1>2, <2>2 DEF RowsLeft, LiveAt
  <2> QED
    BY <2>1, <2>2, <2>3
<1>3. \A k : /\ CommittedRow(storage, t, k) \in Under(t, k)
             /\ CommittedRow(storage, t, k) # NoRow <=> k \in D
             /\ k \in D => CommittedRow(storage, t, k) = storage.rows[t][k]
  BY CommittedRowIs
<1> HIDE DEF D
<1> QED
  BY <1>1, <1>2, <1>3

\* They are rows a table may hold.
LEMMA RowsLeftOK ==
    ASSUME NEW storage, StorageOK(storage), NEW t \in Tables, NEW rows, RowsToWrite(storage, t, rows)
    PROVE  RowsOK(t, RowsLeft(storage, t, rows))
<1> DEFINE R == RowsLeft(storage, t, rows)
           K == KeysLeft(storage, t, rows)
<1>1. DOMAIN R = K /\ R = [k \in K |-> R[k]]
  BY DEF RowsLeft
<1>2. ASSUME NEW k \in K PROVE R[k] \in StoredRows(t) /\ KeyOf(t, R[k]) = k /\ k \in Keys(t)
  <2>1. R[k] \in Under(t, k) /\ R[k] # NoRow
    BY RowsLeftAre
  <2>2. R[k] \in StoredRows(t) /\ KeyOf(t, R[k]) = k
    BY <2>1 DEF Under
  <2> QED
    BY <2>2, StoredRowHasKey
<1>3. IsFiniteSet(K)
  <2> DEFINE L == KeysAt(rows, LiveAt(rows))
             D == DOMAIN storage.rows[t]
  <2>1. IsFiniteSet(D)
    BY DEF StorageOK, RowsOK
  <2>2. IsFiniteSet(L)
    <3>1. LiveAt(rows) \in SUBSET (1..Len(rows)) /\ Len(rows) \in Nat /\ KeysDiffer(rows, Len(rows))
      BY DEF LiveAt, RowsToWrite
    <3>2. AsMany(KeysAt(rows, LiveAt(rows)), LiveAt(rows))
      BY <3>1, CountKeys
    <3> QED
      BY <3>2 DEF AsMany
  <2>3. K \subseteq D \cup L
    BY DEF KeysLeft, KeysAt
  <2> HIDE DEF K, L, D
  <2>4. IsFiniteSet(D \cup L)
    BY <2>1, <2>2, FS_Union
  <2> QED
    BY <2>3, <2>4, FS_Subset
<1> HIDE DEF R, K
<1>4. DOMAIN R \in SUBSET Keys(t)
  BY <1>1, <1>2
<1>5. RowsOK(t, R)
  BY <1>1, <1>2, <1>3, <1>4 DEF RowsOK
<1> QED
  BY <1>5 DEF R

\* And they are counted.
LEMMA RowsLeftCount ==
    ASSUME NEW storage, StorageOK(storage), NEW t \in Tables, NEW rows, RowsToWrite(storage, t, rows)
    PROVE  Cardinality(KeysLeft(storage, t, rows))
             = Cardinality(DOMAIN storage.rows[t]) + Cardinality(InsertedAt(rows))
                - Cardinality(RemovedAt(rows))
<1> DEFINE D == DOMAIN storage.rows[t]
           n == Len(rows)
           K == KeysLeft(storage, t, rows)
           I == LiveAt(rows)
           H == {i \in 1..n : rows[i].key \in D}
           B == {i \in I : rows[i].old # NoRow}
           A == InsertedAt(rows)
           Z == RemovedAt(rows)
<1>1. n \in Nat /\ DOMAIN rows = 1..n /\ KeysDiffer(rows, n)
  BY DEF RowsToWrite
<1>2. IsFiniteSet(D) /\ Cardinality(D) \in Nat
  BY FS_CardinalityType DEF StorageOK, RowsOK
<1>3. MovedTo(rows, n, D, I, K)
  <2>1. {rows[i].key : i \in GoneAt(rows)} \cup {rows[i].key : i \in LiveAt(rows)} = KeysAt(rows, 1..n)
    BY <1>1 DEF KeysAt, LiveAt, GoneAt
  <2> QED
    BY <2>1 DEF MovedTo, KeysLeft, KeysAt
<1>4. \A i \in 1..n : rows[i].old # NoRow <=> rows[i].key \in D
  BY <1>1, CommittedRowIs DEF RowsToWrite
<1>5. I \in SUBSET (1..n) /\ H \in SUBSET (1..n) /\ B \in SUBSET (1..n) /\ A \in SUBSET (1..n)
      /\ Z \in SUBSET (1..n)
  BY <1>1 DEF LiveAt, InsertedAt, RemovedAt, GoneAt
<1>6. I = A \cup B /\ (\A i \in A : i \notin B) /\ H = B \cup Z /\ (\A i \in B : i \notin Z)
  BY <1>1, <1>4 DEF LiveAt, InsertedAt, RemovedAt, GoneAt
<1>7. Recounted(rows, n, D, I, K)
  <2> HIDE DEF D, n, K, I, H, B, A, Z
  <2> QED
    BY <1>1, <1>2, <1>3, <1>5, CountMoved
<1>8. Cardinality(K) = Cardinality(D) + Cardinality(I) - Cardinality(H)
  BY <1>7 DEF Recounted
<1> HIDE DEF D, n, K, I, H, B, A, Z
<1>9. IsFiniteSet(A) /\ IsFiniteSet(B) /\ IsFiniteSet(Z)
  BY <1>1, <1>5, PositionsFinite
<1>10. Cardinality(A \cup B) = Cardinality(A) + Cardinality(B) /\ Cardinality(A) \in Nat
       /\ Cardinality(B) \in Nat
  BY <1>6, <1>9, DisjointUnion
<1>11. Cardinality(B \cup Z) = Cardinality(B) + Cardinality(Z) /\ Cardinality(Z) \in Nat
  BY <1>6, <1>9, DisjointUnion
<1>12. Cardinality(K) = Cardinality(D) + Cardinality(A) - Cardinality(Z)
  BY <1>2, <1>6, <1>8, <1>10, <1>11
<1> QED
  BY <1>12 DEF D, K, A, Z

\* The entry of a row in an index has the row's key.
LEMMA IndexEntryIs ==
    ASSUME NEW x, NEW key, NEW row
    PROVE  /\ \A e \in IndexEntry(x, key, row) : e.key = key /\ row # NoRow
           /\ row = NoRow => IndexEntry(x, key, row) = {}
           /\ row # NoRow => IndexEntry(x, key, row)
                = IF HasNull(IndexValue(x, row)) THEN {} ELSE {[value |-> IndexValue(x, row), key |-> key]}
BY DEF IndexEntry

\* The entries of a table's rows are those of each of them, and can be counted.
LEMMA EntriesAre ==
    ASSUME NEW t \in Tables, NEW rows, RowsOK(t, rows), NEW x
    PROVE  /\ \A e : e \in EntriesOf(x, rows) <=>
                e.key \in DOMAIN rows /\ e \in IndexEntry(x, e.key, rows[e.key])
           /\ IsFiniteSet(EntriesOf(x, rows))
<1> DEFINE K == {j \in DOMAIN rows : ~HasNull(IndexValue(x, rows[j]))}
           E == EntriesOf(x, rows)
           f == [k \in K |-> [value |-> IndexValue(x, rows[k]), key |-> k]]
<1>1. \A k \in DOMAIN rows : rows[k] # NoRow
  BY StoredRowHasKey DEF RowsOK
<1>2. ASSUME NEW e \in E PROVE e.key \in DOMAIN rows /\ e \in IndexEntry(x, e.key, rows[e.key])
  <2>1. PICK k \in K : e = [value |-> IndexValue(x, rows[k]), key |-> k]
    BY DEF EntriesOf
  <2>2. e.key = k
    BY <2>1
  <2> QED
    BY <1>1, <2>1, <2>2 DEF IndexEntry
<1>3. ASSUME NEW e, e.key \in DOMAIN rows, e \in IndexEntry(x, e.key, rows[e.key])
      PROVE  e \in E
  <2>1. ~HasNull(IndexValue(x, rows[e.key])) /\ e = [value |-> IndexValue(x, rows[e.key]), key |-> e.key]
    BY <1>3 DEF IndexEntry
  <2>2. e.key \in K
    BY <1>3, <2>1
  <2> QED
    BY <2>1, <2>2 DEF EntriesOf
<1>4. IsFiniteSet(E)
  <2>1. IsFiniteSet(K)
    <3>1. K \subseteq DOMAIN rows /\ IsFiniteSet(DOMAIN rows)
      BY DEF RowsOK
    <3> HIDE DEF K
    <3> QED
      BY <3>1, FS_Subset
  <2>2. \A k \in K : f[k] \in E
    BY DEF EntriesOf
  <2>3. \A k, l \in K : f[k] = f[l] => k = l
    <3> TAKE k, l \in K
    <3>1. f[k].key = k /\ f[l].key = l
      OBVIOUS
    <3> QED
      BY <3>1
  <2>4. \A e \in E : \E k \in K : f[k] = e
    BY DEF EntriesOf
  <2> HIDE DEF K, E, f
  <2> QED
    BY <2>1, <2>2, <2>3, <2>4, SameSize
<1> QED
  BY <1>2, <1>3, <1>4

\* What a committed index holds, and what it must hold once the rows are written.
LEMMA EntriesHeld ==
    ASSUME NEW storage, StorageOK(storage), NEW t \in Tables, NEW x \in TableIndexes(t)
    PROVE  /\ \A e : e \in storage.entries[x] <=> e \in IndexEntry(x, e.key, CommittedRow(storage, t, e.key))
           /\ IsFiniteSet(storage.entries[x])
           /\ storage.entryCounts[x] = Cardinality(storage.entries[x])
<1>1. x \in Indexes /\ x.table = t
  BY DEF TableIndexes
<1>2. RowsOK(t, storage.rows[t]) /\ storage.entries[x] = EntriesOf(x, storage.rows[t])
      /\ storage.entryCounts[x] = Cardinality(EntriesOf(x, storage.rows[t]))
  BY <1>1 DEF StorageOK
<1> DEFINE R == storage.rows[t]
<1>3. \A k : /\ CommittedRow(storage, t, k) # NoRow <=> k \in DOMAIN R
             /\ k \in DOMAIN R => CommittedRow(storage, t, k) = R[k]
  BY CommittedRowIs
<1> HIDE DEF R
<1>4. \A e : e \in EntriesOf(x, R) <=> e.key \in DOMAIN R /\ e \in IndexEntry(x, e.key, R[e.key])
  BY <1>2, EntriesAre DEF R
<1>5. IsFiniteSet(EntriesOf(x, R))
  BY <1>2, EntriesAre DEF R
<1>6. \A e : e \in EntriesOf(x, R) <=> e \in IndexEntry(x, e.key, CommittedRow(storage, t, e.key))
  BY <1>3, <1>4, IndexEntryIs
<1> QED
  BY <1>2, <1>5, <1>6 DEF R

\* The entries an index needs once the rows are written are those of the written rows.
LEMMA EntriesNeeded ==
    ASSUME NEW storage, StorageOK(storage), NEW t \in Tables, NEW rows, RowsToWrite(storage, t, rows),
           NEW x
    PROVE  /\ \A e : e \in EntriesOf(x, RowsLeft(storage, t, rows)) <=>
                        e \in IndexEntry(x, e.key, Written(storage, t, rows, e.key))
           /\ IsFiniteSet(EntriesOf(x, RowsLeft(storage, t, rows)))
<1> DEFINE R == RowsLeft(storage, t, rows)
<1>1. RowsOK(t, R)
  BY RowsLeftOK
<1>2. DOMAIN R = KeysLeft(storage, t, rows)
  BY DEF RowsLeft
<1>3. \A k : k \in DOMAIN R <=> Written(storage, t, rows, k) # NoRow
  BY <1>2, RowsLeftAre
<1>4. \A k \in DOMAIN R : R[k] = Written(storage, t, rows, k)
  BY <1>2, RowsLeftAre
<1> HIDE DEF R
<1>5. \A e : e \in EntriesOf(x, R) <=> e.key \in DOMAIN R /\ e \in IndexEntry(x, e.key, R[e.key])
  BY <1>1, EntriesAre
<1>6. IsFiniteSet(EntriesOf(x, R))
  BY <1>1, EntriesAre
<1>7. \A e : e \in EntriesOf(x, R) <=> e \in IndexEntry(x, e.key, Written(storage, t, rows, e.key))
  BY <1>3, <1>4, <1>5, IndexEntryIs
<1> QED
  BY <1>6, <1>7 DEF R

\* What a batch removes and adds, entry by entry.
LEMMA BatchIs ==
    ASSUME NEW storage, NEW t, NEW rows, RowsToWrite(storage, t, rows), NEW x, NEW e
    PROVE  /\ e \in IndexBatch(x, rows).removes <=>
                /\ e \in IndexEntry(x, e.key, CommittedRow(storage, t, e.key))
                /\ e \notin IndexEntry(x, e.key, Written(storage, t, rows, e.key))
           /\ e \in IndexBatch(x, rows).adds <=>
                /\ e \notin IndexEntry(x, e.key, CommittedRow(storage, t, e.key))
                /\ e \in IndexEntry(x, e.key, Written(storage, t, rows, e.key))
<1> DEFINE Old(i) == IndexEntry(x, rows[i].key, rows[i].old)
           New(i) == IndexEntry(x, rows[i].key, rows[i].next)
           O == IndexEntry(x, e.key, CommittedRow(storage, t, e.key))
           W == IndexEntry(x, e.key, Written(storage, t, rows, e.key))
<1>1. /\ e \in IndexBatch(x, rows).removes <=> \E i \in DOMAIN rows : e \in Old(i) /\ e \notin New(i)
      /\ e \in IndexBatch(x, rows).adds <=> \E i \in DOMAIN rows : e \in New(i) /\ e \notin Old(i)
  BY DEF IndexBatch
<1>2. \A i \in DOMAIN rows : e \in Old(i) \/ e \in New(i) => rows[i].key = e.key
  BY IndexEntryIs
<1>3. \A i \in DOMAIN rows : rows[i].key = e.key => Old(i) = O /\ New(i) = W
  <2> TAKE i \in DOMAIN rows
  <2> HAVE rows[i].key = e.key
  <2>1. rows[i].old = CommittedRow(storage, t, e.key)
    BY DEF RowsToWrite
  <2>2. rows[i].next = Written(storage, t, rows, e.key)
    BY WrittenIs
  <2> QED
    BY <2>1, <2>2
<1>4. (\A i \in DOMAIN rows : rows[i].key # e.key) => O = W
  BY WrittenIs
<1> HIDE DEF Old, New, O, W
<1>5. (\E i \in DOMAIN rows : e \in Old(i) /\ e \notin New(i)) <=> e \in O /\ e \notin W
  BY <1>2, <1>3, <1>4
<1>6. (\E i \in DOMAIN rows : e \in New(i) /\ e \notin Old(i)) <=> e \notin O /\ e \in W
  BY <1>2, <1>3, <1>4
<1> QED
  BY <1>1, <1>5, <1>6 DEF O, W

\* The index trees hold what a batch removes and not what it adds, and are left exact.
IndexLeft(storage, t, rows, x) ==
    /\ IndexBatch(x, rows).removes \subseteq storage.entries[x]
    /\ IndexBatch(x, rows).adds \cap storage.entries[x] = {}
    /\ EntriesLeft(storage, t, rows)[x] = EntriesOf(x, RowsLeft(storage, t, rows))
    /\ CountsLeft(storage, t, rows)[x] = Cardinality(EntriesOf(x, RowsLeft(storage, t, rows)))

\* A sound index meets every batch of its table's rows.
LEMMA IndexLeftOK ==
    ASSUME NEW storage, StorageOK(storage), NEW t \in Tables, NEW rows, RowsToWrite(storage, t, rows),
           NEW x \in TableIndexes(t)
    PROVE  IndexLeft(storage, t, rows, x)
<1> DEFINE R == IndexBatch(x, rows).removes
           A == IndexBatch(x, rows).adds
           E == storage.entries[x]
           L == EntriesOf(x, RowsLeft(storage, t, rows))
<1>1. x \in Indexes
  BY DEF TableIndexes
<1>2. \A e : e \in E <=> e \in IndexEntry(x, e.key, CommittedRow(storage, t, e.key))
  BY EntriesHeld
<1>3. IsFiniteSet(E) /\ storage.entryCounts[x] = Cardinality(E)
  BY EntriesHeld
<1>4. \A e : e \in L <=> e \in IndexEntry(x, e.key, Written(storage, t, rows, e.key))
  BY EntriesNeeded
<1>5. IsFiniteSet(L)
  BY EntriesNeeded
<1>6. \A e : (e \in R <=> e \in E /\ e \notin L) /\ (e \in A <=> e \notin E /\ e \in L)
  BY <1>2, <1>4, BatchIs
<1>7. EntriesLeft(storage, t, rows)[x] = (E \ R) \cup A
      /\ CountsLeft(storage, t, rows)[x] = Cardinality(E) + Cardinality(A) - Cardinality(R)
  BY <1>1, <1>3 DEF EntriesLeft, CountsLeft
<1> HIDE DEF R, A, E, L
<1>8. R \in SUBSET E /\ A \cap E = {} /\ (E \ R) \cup A = L /\ A \subseteq L
  BY <1>6
<1>9. IsFiniteSet(A)
  BY <1>5, <1>8, FS_Subset
<1> DEFINE kept == E \ R
<1>10. IsFiniteSet(kept) /\ Cardinality(kept) = Cardinality(E) - Cardinality(R)
  BY <1>3, <1>8, SubsetLeaves
<1>11. Cardinality(E) \in Nat /\ Cardinality(R) \in Nat
  BY <1>3, <1>8, SubsetLeaves
<1>12. \A e \in kept : e \notin A
  BY <1>8
<1> HIDE DEF kept
<1>13. Cardinality(kept \cup A) = Cardinality(kept) + Cardinality(A)
  BY <1>9, <1>10, <1>12, DisjointUnion
<1>14. Cardinality(A) \in Nat
  BY <1>9, FS_CardinalityType
<1>15. kept \cup A = L
  BY <1>8 DEF kept
<1>16. Cardinality(L) = Cardinality(E) + Cardinality(A) - Cardinality(R)
  <2>1. Cardinality(L) = Cardinality(kept) + Cardinality(A)
    BY <1>13, <1>15
  <2>2. ASSUME NEW l, NEW k, NEW a \in Nat, NEW e \in Nat, NEW r \in Nat, l = k + a, k = e - r
        PROVE  l = e + a - r
    BY <2>2
  <2> QED
    BY <1>10, <1>11, <1>14, <2>1, <2>2
<1> QED
  BY <1>7, <1>8, <1>16 DEF IndexLeft, R, A, E, L

\* Two storages of a revision that differ only under some keys.
DiffersIn(a, b, P) ==
    /\ StorageOK(b)
    /\ b.revision = a.revision
    /\ \A t \in Tables : \A k : CommittedRow(b, t, k) # CommittedRow(a, t, k) => <<t, k>> \in P

\* Differences add up.
LEMMA DiffersInAll ==
    ASSUME NEW a, NEW b, NEW c, NEW P, NEW Q, NEW S, DiffersIn(a, b, P), DiffersIn(b, c, Q),
           P \subseteq S, Q \subseteq S
    PROVE  DiffersIn(a, c, S)
BY DEF DiffersIn

\* A storage differs from itself nowhere.
LEMMA DiffersInNone ==
    ASSUME NEW a, StorageOK(a), NEW P
    PROVE  DiffersIn(a, a, P)
BY DEF DiffersIn

\* Rows are written without the trees disagreeing, and nothing else is changed.
KeysWritten(t, rows) == {<<t, rows[i].key>> : i \in DOMAIN rows}

\* The rows of a storage the rows are written to are the rows written.
LEMMA RowsOfLeft ==
    ASSUME NEW storage, StorageOK(storage), NEW t \in Tables, NEW rows, RowsToWrite(storage, t, rows),
           NEW s, s = StorageLeft(storage, t, rows)
    PROVE  /\ \A k : CommittedRow(s, t, k) = Written(storage, t, rows, k)
           /\ \A u \in Tables \ {t} : \A k : CommittedRow(s, u, k) = CommittedRow(storage, u, k)
<1>1. s.rows = [storage.rows EXCEPT ![t] = RowsLeft(storage, t, rows)]
  BY DEF StorageLeft
<1>2. storage.rows = [u \in Tables |-> storage.rows[u]]
  BY DEF StorageOK
<1>3. s.rows[t] = RowsLeft(storage, t, rows) /\ \A u \in Tables \ {t} : s.rows[u] = storage.rows[u]
  BY <1>1, <1>2
<1>4. ASSUME NEW k PROVE CommittedRow(s, t, k) = Written(storage, t, rows, k)
  <2>1. DOMAIN s.rows[t] = KeysLeft(storage, t, rows)
    BY <1>3 DEF RowsLeft
  <2>2. k \in DOMAIN s.rows[t] <=> Written(storage, t, rows, k) # NoRow
    BY <2>1, RowsLeftAre
  <2>3. k \in DOMAIN s.rows[t] => s.rows[t][k] = Written(storage, t, rows, k)
    BY <1>3, <2>1, RowsLeftAre
  <2> QED
    BY <2>2, <2>3 DEF CommittedRow
<1> QED
  BY <1>3, <1>4 DEF CommittedRow

\* A storage the rows are written to is sound.
LEMMA StorageLeftOK ==
    ASSUME NEW storage, StorageOK(storage), NEW t \in Tables, NEW rows, RowsToWrite(storage, t, rows),
           KeepsUnique(storage, t, rows)
    PROVE  StorageOK(StorageLeft(storage, t, rows))
<1> DEFINE s == StorageLeft(storage, t, rows)
           R == RowsLeft(storage, t, rows)
           E == EntriesLeft(storage, t, rows)
           C == CountsLeft(storage, t, rows)
           N == storage.counts[t] + Cardinality(InsertedAt(rows)) - Cardinality(RemovedAt(rows))
<1>1. s = [revision |-> storage.revision, rows |-> [storage.rows EXCEPT ![t] = R],
           counts |-> [storage.counts EXCEPT ![t] = N], entries |-> E, entryCounts |-> C]
  BY DEF StorageLeft
<1>2. /\ storage.rows = [u \in Tables |-> storage.rows[u]]
      /\ storage.counts = [u \in Tables |-> Cardinality(DOMAIN storage.rows[u])]
      /\ \A u \in Tables : RowsOK(u, storage.rows[u])
      /\ \A x \in Indexes : /\ storage.entries[x] = EntriesOf(x, storage.rows[x.table])
                            /\ storage.entryCounts[x] = Cardinality(EntriesOf(x, storage.rows[x.table]))
  BY DEF StorageOK
<1>3. RowsOK(t, R)
  BY RowsLeftOK
<1>4. N = Cardinality(DOMAIN R)
  <2>1. DOMAIN R = KeysLeft(storage, t, rows) /\ storage.counts[t] = Cardinality(DOMAIN storage.rows[t])
    BY <1>2 DEF RowsLeft
  <2>2. Cardinality(KeysLeft(storage, t, rows))
             = Cardinality(DOMAIN storage.rows[t]) + Cardinality(InsertedAt(rows))
                - Cardinality(RemovedAt(rows))
    BY RowsLeftCount
  <2> HIDE DEF R
  <2> QED
    BY <2>1, <2>2
<1>5. E = [x \in Indexes |-> E[x]] /\ C = [x \in Indexes |-> C[x]]
  BY DEF EntriesLeft, CountsLeft
<1>6. ASSUME NEW x \in Indexes
      PROVE  /\ x.table = t => E[x] = EntriesOf(x, R) /\ C[x] = Cardinality(EntriesOf(x, R))
             /\ x.table # t => E[x] = storage.entries[x] /\ C[x] = storage.entryCounts[x]
  <2>1. CASE x.table = t
    <3>1. x \in TableIndexes(t)
      BY <2>1 DEF TableIndexes
    <3> QED
      BY <2>1, <3>1, IndexLeftOK DEF IndexLeft
  <2>2. CASE x.table # t
    <3>1. x \notin TableIndexes(t)
      BY <2>2 DEF TableIndexes
    <3> QED
      BY <2>2, <3>1 DEF EntriesLeft, CountsLeft
  <2> QED
    BY <2>1, <2>2
<1>7. \A x \in Indexes : x.table \in Tables
  BY CatalogAssumption
<1> HIDE DEF s, R, E, C, N
<1>8. /\ s = [revision |-> s.revision, rows |-> s.rows, counts |-> s.counts,
              entries |-> s.entries, entryCounts |-> s.entryCounts]
      /\ s.entries = E /\ s.entryCounts = C
      /\ s.rows = [storage.rows EXCEPT ![t] = R] /\ s.counts = [storage.counts EXCEPT ![t] = N]
  BY <1>1
<1>9. /\ s.rows = [u \in Tables |-> s.rows[u]]
      /\ s.rows[t] = R /\ \A u \in Tables \ {t} : s.rows[u] = storage.rows[u]
  BY <1>2, <1>8
<1>10. s.counts = [u \in Tables |-> Cardinality(DOMAIN s.rows[u])]
  <2>1. \A u \in Tables : s.counts[u] = Cardinality(DOMAIN s.rows[u])
    BY <1>2, <1>4, <1>8, <1>9
  <2>2. s.counts = [u \in Tables |-> s.counts[u]]
    BY <1>2, <1>8
  <2> QED
    BY <2>1, <2>2
<1>11. \A x \in Indexes : /\ E[x] = EntriesOf(x, s.rows[x.table])
                          /\ C[x] = Cardinality(EntriesOf(x, s.rows[x.table]))
  BY <1>2, <1>6, <1>7, <1>9
<1>12. /\ s.entries = [x \in Indexes |-> EntriesOf(x, s.rows[x.table])]
       /\ s.entryCounts = [x \in Indexes |-> Cardinality(EntriesOf(x, s.rows[x.table]))]
  BY <1>5, <1>8, <1>11
<1>13. \A u \in Tables : RowsOK(u, s.rows[u])
  BY <1>2, <1>3, <1>9
<1>14. UniqueStored(s)
  <2>1. /\ \A k : CommittedRow(s, t, k) = Written(storage, t, rows, k)
        /\ \A u \in Tables \ {t} : \A k : CommittedRow(s, u, k) = CommittedRow(storage, u, k)
    BY RowsOfLeft DEF s
  <2>2. UniqueStored(storage)
    BY DEF StorageOK
  <2> QED
    BY <2>1, <2>2 DEF UniqueStored, KeepsUnique
<1> QED
  BY <1>8, <1>9, <1>10, <1>12, <1>13, <1>14 DEF StorageOK, s

\* Rows that say truly what they replace are written, and change nothing else.
LEMMA ApplyRowChangesOK ==
    ASSUME NEW storage, StorageOK(storage), NEW t \in Tables, NEW rows, RowsToWrite(storage, t, rows),
           KeepsUnique(storage, t, rows), NEW r, r = ApplyRowChanges(storage, t, rows)
    PROVE  /\ r.error = "none" /\ DiffersIn(storage, r.db, KeysWritten(t, rows))
           /\ \A k : CommittedRow(r.db, t, k) = Written(storage, t, rows, k)
<1> DEFINE s == StorageLeft(storage, t, rows)
<1>1. RowsAreMet(storage, t, rows)
  BY RowsMet
<1>2. IndexesAreMet(storage, t, rows)
  <2>1. \A x \in TableIndexes(t) : IndexLeft(storage, t, rows, x)
    BY IndexLeftOK
  <2> QED
    BY <2>1 DEF IndexesAreMet, IndexLeft
<1>3. r = [error |-> "none", db |-> s]
  BY <1>1, <1>2, ApplyRowChangesIs
<1>4. StorageOK(s)
  BY StorageLeftOK
<1>5. s.revision = storage.revision
  BY DEF StorageLeft
<1>6. /\ \A k : CommittedRow(s, t, k) = Written(storage, t, rows, k)
      /\ \A u \in Tables \ {t} : \A k : CommittedRow(s, u, k) = CommittedRow(storage, u, k)
  BY RowsOfLeft
<1> HIDE DEF s
<1>7. ASSUME NEW u \in Tables, NEW k, CommittedRow(s, u, k) # CommittedRow(storage, u, k)
      PROVE  <<u, k>> \in KeysWritten(t, rows)
  <2>1. u = t
    BY <1>6, <1>7
  <2>2. ~\A i \in DOMAIN rows : rows[i].key # k
    BY <1>6, <1>7, <2>1, WrittenIs
  <2> QED
    BY <2>1, <2>2 DEF KeysWritten
<1>8. DiffersIn(storage, s, KeysWritten(t, rows))
  BY <1>4, <1>5, <1>7 DEF DiffersIn
<1> QED
  BY <1>3, <1>6, <1>8

-----------------------------------------------------------------------------
(* A script's changes. *)

\* A change to a table that says truly what planning read.
IsTrueChange(storage, t, c) ==
    /\ c.key \in Keys(t)
    /\ c.next \in Under(t, c.key)
    /\ c.table = t
    /\ c.held.read => c.held.row = CommittedRow(storage, t, c.key)

\* The rows merged so far: each key once, with the row it replaces.
RowMerged(storage, t, K, row) ==
    /\ row = [key |-> row.key, old |-> row.old, next |-> row.next, written |-> row.written]
    /\ row.key \in Keys(t) /\ row.key \in K
    /\ row.next \in Under(t, row.key)
    /\ row.old = CommittedRow(storage, t, row.key)
RowsMerged(storage, t, K, rows) ==
    /\ rows \in Seq(Range(rows))
    /\ \A i \in DOMAIN rows : RowMerged(storage, t, K, rows[i])
    /\ KeysDiffer(rows, Len(rows))
MergeOK(storage, t, K, acc) ==
    /\ acc = [error |-> acc.error, rows |-> acc.rows]
    /\ acc.error \in {"none", "constraint"}
    /\ RowsMerged(storage, t, K, acc.rows)

\* One more change is merged into the row of its key.
LEMMA MergePlannedOK ==
    ASSUME NEW storage, NEW t \in Tables, NEW K, NEW acc, MergeOK(storage, t, K, acc),
           NEW c, IsTrueChange(storage, t, c), c.key \in K
    PROVE  MergeOK(storage, t, K, MergePlanned(storage, acc, c))
<1> DEFINE cs == acc.rows
           n == Len(cs)
           same == {i \in DOMAIN cs : cs[i].key = c.key}
<1>1. RowsMerged(storage, t, K, cs) /\ acc = [error |-> acc.error, rows |-> cs]
      /\ acc.error \in {"none", "constraint"}
  BY DEF MergeOK
<1> HIDE DEF cs
<1>2. cs \in Seq(Range(cs)) /\ n \in Nat /\ DOMAIN cs = 1..n
  BY <1>1 DEF RowsMerged
<1>3. (\A i \in 1..n : RowMerged(storage, t, K, cs[i])) /\ KeysDiffer(cs, n)
  BY <1>1, <1>2 DEF RowsMerged
<1> HIDE DEF n
<1>4. CASE same = {}
  <2> DEFINE old == IF c.held.read THEN c.held.row ELSE CommittedRow(storage, c.table, c.key)
             w == c.next # NoRow
             f == [key |-> c.key, old |-> old, next |-> c.next, written |-> w]
             b == Append(cs, f)
  <2>1. old = CommittedRow(storage, t, c.key)
    BY DEF IsTrueChange
  <2>2. MergePlanned(storage, acc, c) = [acc EXCEPT !.rows = b]
    BY <1>4 DEF MergePlanned, cs
  <2> HIDE DEF old, w
  <2>3. f.key = c.key /\ f.old = old /\ f.next = c.next
        /\ f = [key |-> f.key, old |-> f.old, next |-> f.next, written |-> f.written]
    OBVIOUS
  <2> HIDE DEF f
  <2>4. RowMerged(storage, t, K, f)
    BY <2>1, <2>3 DEF RowMerged, IsTrueChange
  <2>5. b = [i \in 1..(n + 1) |-> b[i]] /\ DOMAIN b = 1..(n + 1) /\ b[n + 1] = f
        /\ \A i \in 1..n : b[i] = cs[i]
    <3>1. PICK S : f \in S /\ Range(cs) \subseteq S
      <4>1. f \in Range(cs) \cup {f} /\ Range(cs) \subseteq Range(cs) \cup {f}
        OBVIOUS
      <4> QED
        BY <4>1
    <3>2. cs \in Seq(S) /\ n = Len(cs)
      BY <1>2, <3>1 DEF n
    <3>3. b \in Seq(S) /\ DOMAIN b = 1..(n + 1) /\ b[n + 1] = f /\ \A i \in 1..n : b[i] = cs[i]
      BY <3>1, <3>2
    <3> HIDE DEF b
    <3>4. b = [i \in DOMAIN b |-> b[i]]
      BY <3>3
    <3> QED
      BY <3>3, <3>4
  <2>6. n + 1 \in Nat /\ \A i \in 1..(n + 1) : i \in 1..n \/ i = n + 1
    BY <1>2
  <2> HIDE DEF b
  <2>7. b \in Seq(Range(b)) /\ Len(b) = n + 1
    BY <2>5, <2>6, HoldsItsRange
  <2>8. \A i \in 1..n : b[i].key # f.key
    BY <1>2, <1>4, <2>3, <2>5
  <2>9. \A i, j \in 1..n : b[i].key = b[j].key => i = j
    BY <1>3, <2>5 DEF KeysDiffer
  <2>10. KeysDiffer(b, n + 1)
    <3>1. \A i, j \in 1..(n + 1) : b[i].key = b[j].key => i = j
      <4> TAKE i, j \in 1..(n + 1)
      <4>1. CASE i \in 1..n /\ j \in 1..n
        BY <2>9, <4>1
      <4>2. CASE i = n + 1 /\ j = n + 1
        BY <4>2
      <4>3. CASE i \in 1..n /\ j = n + 1
        BY <2>5, <2>8, <4>3
      <4>4. CASE i = n + 1 /\ j \in 1..n
        BY <2>5, <2>8, <4>4
      <4> QED
        BY <2>6, <4>1, <4>2, <4>3, <4>4
    <3> QED
      BY <3>1 DEF KeysDiffer
  <2>11. \A i \in DOMAIN b : RowMerged(storage, t, K, b[i])
    BY <1>3, <2>4, <2>5, <2>6
  <2>12. RowsMerged(storage, t, K, b)
    BY <2>7, <2>10, <2>11 DEF RowsMerged
  <2> QED
    BY <1>1, <2>2, <2>12 DEF MergeOK
<1>5. CASE same # {}
  <2> DEFINE i == CHOOSE j \in same : TRUE
             e == cs[i]
             w == e.written \/ c.next # NoRow
             f == [e EXCEPT !.next = c.next, !.written = w]
             b == [cs EXCEPT ![i] = f]
             twice == c.next # NoRow /\ e.written
  <2>1. i \in same
    BY <1>5
  <2>2. i \in 1..n /\ e.key = c.key
    BY <1>2, <2>1
  <2> HIDE DEF i
  <2>3. RowMerged(storage, t, K, e)
    BY <1>3, <2>2
  <2>4. MergePlanned(storage, acc, c)
          = IF twice THEN [acc EXCEPT !.error = "constraint"]
            ELSE [acc EXCEPT !.rows[i].next = c.next, !.rows[i].written = @ \/ c.next # NoRow]
    BY <1>5 DEF MergePlanned, cs, i
  <2>5. [acc EXCEPT !.rows[i].next = c.next, !.rows[i].written = @ \/ c.next # NoRow]
          = [acc EXCEPT !.rows = b]
    BY <1>1, <1>2, <2>2, <2>3 DEF cs, RowMerged
  <2> HIDE DEF e
  <2>6. RowMerged(storage, t, K, f) /\ f.key = e.key
    <3> HIDE DEF w
    <3>1. e = [key |-> e.key, old |-> e.old, next |-> e.next, written |-> e.written]
      BY <2>3 DEF RowMerged
    <3>2. f = [e EXCEPT !.next = c.next, !.written = w]
      OBVIOUS
    <3> HIDE DEF f
    <3>3. f = [key |-> e.key, old |-> e.old, next |-> c.next, written |-> w]
      BY <3>1, <3>2
    <3>4. f.key = e.key /\ f.old = e.old /\ f.next = c.next /\ f.written = w
      BY <3>3
    <3> QED
      BY <2>2, <2>3, <3>3, <3>4 DEF RowMerged, IsTrueChange
  <2> HIDE DEF f, w
  <2>7. b = [j \in 1..n |-> b[j]] /\ DOMAIN b = 1..n /\ b[i] = f /\ \A j \in 1..n : j # i => b[j] = cs[j]
    BY <1>2, <2>2
  <2> HIDE DEF b, twice
  <2>8. b \in Seq(Range(b)) /\ Len(b) = n
    BY <1>2, <2>7, HoldsItsRange
  <2>9. \A j \in 1..n : RowMerged(storage, t, K, b[j]) /\ b[j].key = cs[j].key
    BY <1>3, <2>6, <2>7 DEF e
  <2>10. KeysDiffer(b, n)
    BY <1>3, <2>9 DEF KeysDiffer
  <2>11. RowsMerged(storage, t, K, b)
    BY <2>7, <2>8, <2>9, <2>10 DEF RowsMerged
  <2>12. MergeOK(storage, t, K, [acc EXCEPT !.rows = b])
    BY <1>1, <2>11 DEF MergeOK
  <2>13. MergeOK(storage, t, K, [acc EXCEPT !.error = "constraint"])
    BY <1>1 DEF MergeOK
  <2> QED
    BY <2>4, <2>5, <2>12, <2>13
<1> QED
  BY <1>4, <1>5

\* A table's changes are merged in turn.
MergeAllRun(storage, changes, after) ==
    /\ MergeAll(storage, changes) = after[Len(changes)]
    /\ after[0] = [error |-> "none", rows |-> <<>>]
    /\ \A n \in 1..Len(changes) : after[n] = MergePlanned(storage, after[n - 1], changes[n])

\* The loop has such a run.
LEMMA MergeAllLoop ==
    ASSUME NEW storage, NEW changes, Len(changes) \in Nat
    PROVE  \E after : MergeAllRun(storage, changes, after)
<1> DEFINE start == [error |-> "none", rows |-> <<>>]
           Step(f, n) == MergePlanned(storage, f[n - 1], changes[n])
           E(m, f) == f = [n \in 0..m |-> IF n = 0 THEN start ELSE Step(f, n)]
           I == {m \in 0..Len(changes) : \E f : E(m, f)}
<1>1. MergeAll(storage, changes) = (CHOOSE f : E(Len(changes), f))[Len(changes)]
  BY DEF MergeAll
<1>2. E(0, [n \in 0..0 |-> start])
  <2> HIDE DEF Step, start
  <2> QED
    OBVIOUS
<1>3. ASSUME NEW m \in 0..(Len(changes) - 1), NEW f, E(m, f)
      PROVE  \E g : E(m + 1, g)
  <2> DEFINE g == [n \in 0..(m + 1) |-> IF n = m + 1 THEN Step(f, n) ELSE f[n]]
  <2>1. ASSUME NEW n \in 0..(m + 1), n # 0 PROVE Step(g, n) = Step(f, n)
    <3>1. g[n - 1] = f[n - 1]
      BY <2>1
    <3> QED
      BY <3>1
  <2> HIDE DEF Step, start
  <2>2. ASSUME NEW n \in 0..(m + 1), n # m + 1
        PROVE  f[n] = IF n = 0 THEN start ELSE Step(f, n)
    BY <1>3, <2>2
  <2>3. E(m + 1, g)
    BY <2>1, <2>2
  <2> QED
    BY <2>3
<1>4. \A f : E(Len(changes), f) => /\ f[0] = start
                      /\ \A n \in 1..Len(changes) : f[n] = Step(f, n)
  <2> HIDE DEF Step, start
  <2> QED
    OBVIOUS
<1> HIDE DEF E
<1>5. 0 \in I
  BY <1>2
<1>6. ASSUME NEW m \in 0..(Len(changes) - 1), m \in I PROVE m + 1 \in I
  <2>1. PICK f : E(m, f)
    BY <1>6
  <2>2. m + 1 \in 0..Len(changes) /\ \E g : E(m + 1, g)
    BY <2>1, <1>3
  <2> QED
    BY <2>2
<1>7. 0..Len(changes) \subseteq I
  <2> HIDE DEF I
  <2> QED
    BY <1>5, <1>6, LoopInduction
<1>8. E(Len(changes), CHOOSE f : E(Len(changes), f))
  <2>1. Len(changes) \in I
    BY <1>7
  <2> QED
    BY <2>1
<1> QED
  BY <1>1, <1>4, <1>8 DEF MergeAllRun

\* Merged changes leave one row for each key, with the committed row it replaces.
LEMMA MergeAllOK ==
    ASSUME NEW storage, NEW t \in Tables, NEW K, NEW n \in Nat, NEW changes, Len(changes) = n,
           \A i \in 1..n : IsTrueChange(storage, t, changes[i]) /\ changes[i].key \in K
    PROVE  MergeOK(storage, t, K, MergeAll(storage, changes))
<1>1. PICK after : MergeAllRun(storage, changes, after)
  BY MergeAllLoop
<1> DEFINE S == {m \in 0..n : MergeOK(storage, t, K, after[m])}
<1>2. after[0] = [error |-> "none", rows |-> <<>>] /\ MergeAll(storage, changes) = after[n]
      /\ \A m \in 1..n : after[m] = MergePlanned(storage, after[m - 1], changes[m])
  BY <1>1 DEF MergeAllRun
<1>3. 0 \in S
  <2>1. RowsMerged(storage, t, K, <<>>)
    BY DEF RowsMerged, KeysDiffer, Range
  <2> QED
    BY <1>2, <2>1 DEF MergeOK
<1>4. ASSUME NEW m \in 0..(n - 1), m \in S PROVE m + 1 \in S
  <2>1. m + 1 \in 1..n /\ (m + 1) - 1 = m
    OBVIOUS
  <2>2. after[m + 1] = MergePlanned(storage, after[m], changes[m + 1])
    BY <1>2, <2>1
  <2>3. MergeOK(storage, t, K, after[m])
    BY <1>4
  <2>4. IsTrueChange(storage, t, changes[m + 1]) /\ changes[m + 1].key \in K
    BY <2>1
  <2>5. MergeOK(storage, t, K, after[m + 1])
    BY <2>2, <2>3, <2>4, MergePlannedOK
  <2> QED
    BY <2>1, <2>5
<1>5. n \in 0..n
  OBVIOUS
<1> HIDE DEF S
<1>6. 0..n \subseteq S
  BY <1>3, <1>4, LoopInduction
<1> QED
  BY <1>2, <1>5, <1>6 DEF S

\* Rows the unique indexes allow take no value twice.
LEMMA AllowedIsUnique ==
    ASSUME NEW storage, StorageOK(storage), NEW t \in Tables, NEW rows, RowsToWrite(storage, t, rows),
           UniqueIndexesAllow(storage, t, rows)
    PROVE  KeepsUnique(storage, t, rows)
<1> DEFINE W(k) == Written(storage, t, rows, k)
<1>1. ASSUME NEW s, NEW i \in DOMAIN rows, Takes(t, rows[i].next, s)
      PROVE  /\ \A j \in DOMAIN rows : j # i => ~Takes(t, rows[j].next, s)
             /\ \A k : Takes(t, CommittedRow(storage, t, k), s) =>
                    k = rows[i].key \/ \E j \in DOMAIN rows : rows[j].key = k
  <2>1. /\ s = [index |-> s.index, value |-> s.value]
        /\ s.index \in Indexes /\ s.index.table = t /\ s.index.unique /\ rows[i].next # NoRow
        /\ s.value = IndexValue(s.index, rows[i].next) /\ ~HasNull(s.value)
    BY <1>1, TakesIs
  <2>2. s.index \in UniqueIndexes(t)
    BY <2>1 DEF UniqueIndexes, TableIndexes
  <2>3. /\ \A j \in DOMAIN rows :
                j # i => ~(rows[j].next # NoRow /\ IndexValue(s.index, rows[j].next) = s.value)
        /\ \A k \in CommittedOwners(storage, s.index, s.value) :
                k = rows[i].key \/ \E j \in DOMAIN rows : rows[j].key = k
    BY <2>1, <2>2 DEF UniqueIndexesAllow
  <2>4. \A k : k \in CommittedOwners(storage, s.index, s.value) <=> Takes(t, CommittedRow(storage, t, k), s)
    BY <1>1, OwnersTake
  <2>5. \A j \in DOMAIN rows : Takes(t, rows[j].next, s) =>
            rows[j].next # NoRow /\ IndexValue(s.index, rows[j].next) = s.value
    BY TakesIs
  <2> QED
    BY <2>3, <2>4, <2>5
<1>2. ASSUME NEW k PROVE \/ \E i \in DOMAIN rows : rows[i].key = k /\ W(k) = rows[i].next
                         \/ (\A i \in DOMAIN rows : rows[i].key # k) /\ W(k) = CommittedRow(storage, t, k)
  BY WrittenIs
<1> HIDE DEF W
<1>3. ASSUME NEW s, NEW k, NEW j, Takes(t, W(k), s), Takes(t, W(j), s), k # j,
             \E i \in DOMAIN rows : rows[i].key = k /\ W(k) = rows[i].next
      PROVE  FALSE
  <2>1. PICK i \in DOMAIN rows : rows[i].key = k /\ W(k) = rows[i].next
    BY <1>3
  <2>2. Takes(t, rows[i].next, s)
    BY <1>3, <2>1
  <2>3. CASE \E l \in DOMAIN rows : rows[l].key = j /\ W(j) = rows[l].next
    <3>1. PICK l \in DOMAIN rows : rows[l].key = j /\ W(j) = rows[l].next
      BY <2>3
    <3>2. l # i /\ Takes(t, rows[l].next, s)
      BY <1>3, <2>1, <3>1
    <3> QED
      BY <1>1, <2>2, <3>2
  <2>4. CASE (\A l \in DOMAIN rows : rows[l].key # j) /\ W(j) = CommittedRow(storage, t, j)
    BY <1>1, <1>3, <2>1, <2>2, <2>4
  <2> QED
    BY <1>2, <2>3, <2>4
<1>4. ASSUME NEW s, NEW k, NEW j, Takes(t, W(k), s), Takes(t, W(j), s), k # j PROVE FALSE
  <2>1. (\A i \in DOMAIN rows : rows[i].key # k) /\ W(k) = CommittedRow(storage, t, k)
    BY <1>2, <1>3, <1>4
  <2>2. (\A i \in DOMAIN rows : rows[i].key # j) /\ W(j) = CommittedRow(storage, t, j)
    BY <1>2, <1>3, <1>4
  <2>3. UniqueStored(storage)
    BY DEF StorageOK
  <2> QED
    BY <1>4, <2>1, <2>2, <2>3 DEF UniqueStored
<1> QED
  BY <1>4 DEF KeepsUnique, W

\* One table's changes: refused by a constraint, or written and nothing else changed.
AppliedOK(storage, P, r) ==
    /\ r.error \in {"none", "constraint"}
    /\ r.error = "none" => DiffersIn(storage, r.db, P)

\* A table's true changes are applied so.
LEMMA ApplyChangesOK ==
    ASSUME NEW storage, StorageOK(storage), NEW t \in Tables, NEW K, NEW n \in Nat, NEW changes,
           Len(changes) = n,
           \A i \in 1..n : IsTrueChange(storage, t, changes[i]) /\ changes[i].key \in K
    PROVE  AppliedOK(storage, {t} \X K, ApplyChanges(storage, t, changes))
<1> DEFINE m == MergeAll(storage, changes)
           r == ApplyRowChanges(storage, t, m.rows)
<1>1. MergeOK(storage, t, K, m)
  BY MergeAllOK
<1> HIDE DEF m
<1>2. RowsMerged(storage, t, K, m.rows)
  BY <1>1 DEF MergeOK
<1>3. ASSUME NEW rows, RowsMerged(storage, t, K, rows)
      PROVE  RowsToWrite(storage, t, rows) /\ KeysWritten(t, rows) \subseteq {t} \X K
  <2>1. rows \in Seq(Range(rows)) /\ KeysDiffer(rows, Len(rows))
        /\ \A i \in DOMAIN rows : RowMerged(storage, t, K, rows[i])
    BY <1>3 DEF RowsMerged
  <2>2. Len(rows) \in Nat /\ DOMAIN rows = 1..Len(rows)
    BY <2>1
  <2>3. RowsToWrite(storage, t, rows)
    BY <2>1, <2>2 DEF RowMerged, RowsToWrite
  <2>4. \A i \in DOMAIN rows : <<t, rows[i].key>> \in {t} \X K
    BY <2>1 DEF RowMerged
  <2> QED
    BY <2>3, <2>4 DEF KeysWritten
<1>4. RowsToWrite(storage, t, m.rows) /\ KeysWritten(t, m.rows) \subseteq {t} \X K
  BY <1>2, <1>3
<1>5. CASE ApplyChanges(storage, t, changes) = [error |-> "constraint", db |-> storage]
  BY <1>5 DEF AppliedOK
<1>6. CASE UniqueIndexesAllow(storage, t, m.rows) /\ ApplyChanges(storage, t, changes) = r
  <2>1. KeepsUnique(storage, t, m.rows)
    BY <1>4, <1>6, AllowedIsUnique
  <2>2. r.error = "none" /\ DiffersIn(storage, r.db, KeysWritten(t, m.rows))
    BY <1>4, <2>1, ApplyRowChangesOK
  <2> HIDE DEF r
  <2>3. DiffersIn(storage, r.db, {t} \X K)
    BY <1>4, <2>2 DEF DiffersIn
  <2> QED
    BY <1>6, <2>2, <2>3 DEF AppliedOK
<1>7. \/ ApplyChanges(storage, t, changes) = [error |-> "constraint", db |-> storage]
      \/ UniqueIndexesAllow(storage, t, m.rows) /\ ApplyChanges(storage, t, changes) = r
  BY DEF ApplyChanges, ApplyMerged, m, r
<1> QED
  BY <1>5, <1>6, <1>7

\* The changes planned on a storage are true of it.
LEMMA PlannedIsTrue ==
    ASSUME NEW storage, NEW x, SeesCommitted(storage, x), NEW c \in Changes(storage, x)
    PROVE  c.table \in Tables /\ IsTrueChange(storage, c.table, c)
<1>1. PICK t \in Tables : c \in TableChanges(storage, x, t)
  BY DEF Changes
<1>2. ChangeSays(storage, x, t, c)
  BY <1>1, TableChangeSays
<1>3. Lookup(storage, x, t, c.key) = CommittedRow(storage, t, c.key)
  BY DEF SeesCommitted
<1>4. c.held.read => c.held.row = CommittedRow(storage, t, c.key)
  BY <1>2, <1>3 DEF ChangeSays, Unread, Read
<1> QED
  BY <1>2, <1>4 DEF ChangeSays, IsTrueChange

\* The keys a statement's changes name in some tables.
NamedIn(changes, T) == {<<c.table, c.key>> : c \in {d \in Range(changes) : d.table \in T}}

\* The tables a statement changes are written in turn.
ApplyTablesRun(storage, changes, tables, after) ==
    /\ ApplyTables(storage, changes, tables) = after[Len(tables)]
    /\ after[0] = [error |-> "none", db |-> storage]
    /\ \A n \in 1..Len(tables) : after[n] = ApplyNext(changes, after[n - 1], tables[n])

\* The loop has such a run.
LEMMA ApplyTablesLoop ==
    ASSUME NEW storage, NEW changes, NEW tables, Len(tables) \in Nat
    PROVE  \E after : ApplyTablesRun(storage, changes, tables, after)
<1> DEFINE start == [error |-> "none", db |-> storage]
           Step(f, n) == ApplyNext(changes, f[n - 1], tables[n])
           E(m, f) == f = [n \in 0..m |-> IF n = 0 THEN start ELSE Step(f, n)]
           I == {m \in 0..Len(tables) : \E f : E(m, f)}
<1>1. ApplyTables(storage, changes, tables) = (CHOOSE f : E(Len(tables), f))[Len(tables)]
  BY DEF ApplyTables
<1>2. E(0, [n \in 0..0 |-> start])
  <2> HIDE DEF Step, start
  <2> QED
    OBVIOUS
<1>3. ASSUME NEW m \in 0..(Len(tables) - 1), NEW f, E(m, f)
      PROVE  \E g : E(m + 1, g)
  <2> DEFINE g == [n \in 0..(m + 1) |-> IF n = m + 1 THEN Step(f, n) ELSE f[n]]
  <2>1. ASSUME NEW n \in 0..(m + 1), n # 0 PROVE Step(g, n) = Step(f, n)
    <3>1. g[n - 1] = f[n - 1]
      BY <2>1
    <3> QED
      BY <3>1
  <2> HIDE DEF Step, start
  <2>2. ASSUME NEW n \in 0..(m + 1), n # m + 1
        PROVE  f[n] = IF n = 0 THEN start ELSE Step(f, n)
    BY <1>3, <2>2
  <2>3. E(m + 1, g)
    BY <2>1, <2>2
  <2> QED
    BY <2>3
<1>4. \A f : E(Len(tables), f) => /\ f[0] = start
                      /\ \A n \in 1..Len(tables) : f[n] = Step(f, n)
  <2> HIDE DEF Step, start
  <2> QED
    OBVIOUS
<1> HIDE DEF E
<1>5. 0 \in I
  BY <1>2
<1>6. ASSUME NEW m \in 0..(Len(tables) - 1), m \in I PROVE m + 1 \in I
  <2>1. PICK f : E(m, f)
    BY <1>6
  <2>2. m + 1 \in 0..Len(tables) /\ \E g : E(m + 1, g)
    BY <2>1, <1>3
  <2> QED
    BY <2>2
<1>7. 0..Len(tables) \subseteq I
  <2> HIDE DEF I
  <2> QED
    BY <1>5, <1>6, LoopInduction
<1>8. E(Len(tables), CHOOSE f : E(Len(tables), f))
  <2>1. Len(tables) \in I
    BY <1>7
  <2> QED
    BY <2>1
<1> QED
  BY <1>1, <1>4, <1>8 DEF ApplyTablesRun

\* A statement's changes are written, or refused by a constraint.
LEMMA ApplyNextOK ==
    ASSUME NEW storage, NEW x, SeesCommitted(storage, x), NEW changes \in Seq(Changes(storage, x)),
           NEW T, NEW t \in Tables, t \notin T, NEW acc,
           AppliedOK(storage, NamedIn(changes, T), acc)
    PROVE  AppliedOK(storage, NamedIn(changes, T \cup {t}), ApplyNext(changes, acc, t))
<1>1. CASE acc.error # "none"
  BY <1>1 DEF AppliedOK, ApplyNext
<1>2. CASE acc.error = "none"
  <2> DEFINE s == acc.db
             I == {i \in DOMAIN changes : changes[i].table = t}
             p == Picked(changes, I)
             K == {c.key : c \in {d \in Range(changes) : d.table = t}}
             r == ApplyChanges(s, t, p)
  <2>1. DiffersIn(storage, s, NamedIn(changes, T))
    BY <1>2 DEF AppliedOK
  <2>2. StorageOK(s) /\ \A k : CommittedRow(s, t, k) = CommittedRow(storage, t, k)
    BY <2>1 DEF DiffersIn, NamedIn
  <2>3. I \in SUBSET (DOMAIN changes)
    OBVIOUS
  <2>4. p \in Seq(Changes(storage, x)) /\ Range(p) = {changes[i] : i \in I}
    <3> HIDE DEF I
    <3> QED
      BY <2>3, PickedSeq
  <2>5. \A c \in Range(p) : c \in Range(changes) /\ c.table = t
    BY <2>4 DEF Range
  <2>6. r = ApplyNext(changes, acc, t)
    BY <1>2 DEF ApplyNext
  <2> HIDE DEF p, s, I
  <2>7. Len(p) \in Nat /\ \A i \in 1..Len(p) : p[i] \in Range(p) /\ p[i] \in Changes(storage, x)
    BY <2>4 DEF Range
  <2>8. ASSUME NEW i \in 1..Len(p) PROVE IsTrueChange(s, t, p[i]) /\ p[i].key \in K
    <3>1. p[i] \in Range(changes) /\ p[i].table = t
      BY <2>5, <2>7
    <3>2. IsTrueChange(storage, t, p[i])
      BY <2>7, <3>1, PlannedIsTrue
    <3> QED
      BY <2>2, <3>1, <3>2 DEF IsTrueChange
  <2>9. {t} \X K \subseteq NamedIn(changes, T \cup {t}) /\ NamedIn(changes, T) \subseteq NamedIn(changes, T \cup {t})
    BY DEF NamedIn
  <2> HIDE DEF K
  <2>10. AppliedOK(s, {t} \X K, r)
    BY <2>2, <2>7, <2>8, ApplyChangesOK
  <2> HIDE DEF r
  <2>11. r.error = "none" => DiffersIn(storage, r.db, NamedIn(changes, T \cup {t}))
    <3>1. SUFFICES ASSUME r.error = "none"
                   PROVE  DiffersIn(storage, r.db, NamedIn(changes, T \cup {t}))
      OBVIOUS
    <3> DEFINE P == NamedIn(changes, T)
               Q == {t} \X K
               A == NamedIn(changes, T \cup {t})
    <3>2. DiffersIn(s, r.db, Q) /\ P \subseteq A /\ Q \subseteq A /\ DiffersIn(storage, s, P)
      BY <2>1, <2>9, <2>10, <3>1 DEF AppliedOK
    <3> HIDE DEF P, Q, A
    <3>3. DiffersIn(storage, r.db, A)
      BY <3>2, DiffersInAll
    <3> QED
      BY <3>3 DEF A
  <2>12. AppliedOK(storage, NamedIn(changes, T \cup {t}), r)
    BY <2>10, <2>11 DEF AppliedOK
  <2> QED
    BY <2>6, <2>12
<1> QED
  BY <1>1, <1>2

\* A statement's changes are refused, or written to the tables and keys they name.
LEMMA ApplyByTableOK ==
    ASSUME NEW storage, StorageOK(storage), NEW x, SeesCommitted(storage, x),
           NEW changes \in Seq(Changes(storage, x))
    PROVE  AppliedOK(storage, NamedIn(changes, Tables), ApplyByTable(storage, changes))
<1> DEFINE tables == TablesAfter(<<>>, changes)
           n == Len(tables)
<1>1. tables \in Seq(Tables) /\ Once(tables)
  <2>1. Len(changes) \in Nat /\ \A i \in 1..Len(changes) : changes[i] \in Changes(storage, x)
    OBVIOUS
  <2>2. \A i \in 1..Len(changes) : changes[i].table \in Tables
    BY <2>1, PlannedIsTrue
  <2>3. <<>> \in Seq(Tables) /\ Once(<<>>)
    BY DEF Once
  <2>4. Lists(<<>>, {changes[i].table : i \in 1..Len(changes)}, tables)
    BY <2>1, <2>2, <2>3, TablesAfterIs
  <2> HIDE DEF tables
  <2> QED
    BY <2>3, <2>4 DEF Lists
<1> HIDE DEF tables
<1>2. n \in Nat /\ DOMAIN tables = 1..n
  BY <1>1
<1>3. PICK after : ApplyTablesRun(storage, changes, tables, after)
  BY <1>2, ApplyTablesLoop
<1>4. after[0] = [error |-> "none", db |-> storage] /\ ApplyByTable(storage, changes) = after[n]
      /\ \A m \in 1..n : after[m] = ApplyNext(changes, after[m - 1], tables[m])
  BY <1>3 DEF ApplyTablesRun, ApplyByTable, tables
<1> DEFINE T(m) == {tables[i] : i \in 1..m}
           S == {m \in 0..n : AppliedOK(storage, NamedIn(changes, T(m)), after[m])}
<1> HIDE DEF n
<1>5. 0 \in S
  <2>1. DiffersIn(storage, storage, NamedIn(changes, T(0)))
    BY DiffersInNone
  <2>2. 0 \in 0..n
    BY <1>2
  <2> HIDE DEF T
  <2>3. AppliedOK(storage, NamedIn(changes, T(0)), after[0])
    BY <1>4, <2>1 DEF AppliedOK
  <2> QED
    BY <2>2, <2>3
<1>6. ASSUME NEW m \in 0..(n - 1), m \in S PROVE m + 1 \in S
  <2>1. m + 1 \in 1..n /\ (m + 1) - 1 = m /\ m + 1 \in 0..n
    BY <1>2
  <2>2. after[m + 1] = ApplyNext(changes, after[m], tables[m + 1])
    BY <1>4, <2>1
  <2>3. AppliedOK(storage, NamedIn(changes, T(m)), after[m])
    BY <1>6
  <2>4. tables[m + 1] \notin T(m)
    BY <1>1, <1>2, <2>1 DEF Once
  <2>5. T(m + 1) = T(m) \cup {tables[m + 1]}
    BY <1>2
  <2>6. tables[m + 1] \in Tables
    BY <1>1, <1>2, <2>1
  <2> HIDE DEF T
  <2>7. AppliedOK(storage, NamedIn(changes, T(m) \cup {tables[m + 1]}), after[m + 1])
    BY <2>2, <2>3, <2>4, <2>6, ApplyNextOK
  <2> QED
    BY <2>1, <2>5, <2>7
<1>7. n \in 0..n
  BY <1>2
<1> HIDE DEF S
<1>8. 0..n \subseteq S
  BY <1>2, <1>5, <1>6, LoopInduction
<1>9. AppliedOK(storage, NamedIn(changes, T(n)), after[n])
  BY <1>7, <1>8 DEF S
<1>10. NamedIn(changes, T(n)) \subseteq NamedIn(changes, Tables)
  <2>1. T(n) \subseteq Tables
    BY <1>1, <1>2
  <2> QED
    BY <2>1 DEF NamedIn
<1> HIDE DEF T
<1> QED
  BY <1>4, <1>9, <1>10 DEF AppliedOK, DiffersIn

\* The keys an answer reports: those it names in a table it names.
ReportedIn(tables, keys) == {p \in UNION {{t} \X keys[t] : t \in DOMAIN keys} : p[1] \in tables}

\* A key is reported when its table is named and the key is among its keys.
LEMMA IsReported ==
    ASSUME NEW tables, NEW keys, NEW t, NEW k
    PROVE  <<t, k>> \in ReportedIn(tables, keys) <=> t \in tables /\ t \in DOMAIN keys /\ k \in keys[t]
BY DEF ReportedIn

\* A report covers a set of changes: it names their tables, and the keys of those tables
\* that it does not leave out.  No table of it has more keys than may be reported.
Covers(tables, keys, P) ==
    \A t, k : <<t, k>> \in P => t \in tables /\ (t \in DOMAIN keys => k \in keys[t])
Bounded(keys) == \A t \in DOMAIN keys : Reportable(keys[t])

\* What is covered stays covered, and every change is.
LEMMA MergedReport ==
    ASSUME NEW tables, NEW keys, NEW P, Covers(tables, keys, P), Bounded(keys),
           NEW changes, NEW named, \A c \in Range(changes) : c.table \in named
    PROVE  LET merged == MergeKeys(tables, keys, named, ChangedKeys(changes))
           IN  /\ Covers(tables \cup named, merged, P \cup NamedIn(changes, Tables))
               /\ Bounded(merged)
<1> DEFINE b == ChangedKeys(changes)
           Known(t) == IF t \in DOMAIN keys THEN keys[t] ELSE {}
           LeftOut(t) == \/ t \notin DOMAIN b \/ t \in tables \ DOMAIN keys
                         \/ Overflows(Known(t), b[t])
           m == MergeKeys(tables, keys, named, b)
<1>1. /\ DOMAIN m = (DOMAIN keys \cup named) \ {u \in named : LeftOut(u)}
      /\ \A t \in DOMAIN m : m[t] = IF t \in named THEN Known(t) \cup b[t] ELSE Known(t)
  <2> HIDE DEF b
  <2> QED
    BY DEF MergeKeys
<1>2. \A c \in Range(changes) : c.table \in DOMAIN b => c.key \in b[c.table]
  BY DEF ChangedKeys, KeysChanged
<1>3. \A t \in DOMAIN m : t \in named => ~LeftOut(t)
  <2> HIDE DEF LeftOut, m, b
  <2> QED
    BY <1>1
<1>4. \A t \in DOMAIN m : t \notin named => t \in DOMAIN keys
  <2> HIDE DEF LeftOut, m, b
  <2> QED
    BY <1>1
<1> HIDE DEF b, m
<1>5. ASSUME NEW t, NEW k, <<t, k>> \in P
      PROVE  t \in tables \cup named /\ (t \in DOMAIN m => k \in m[t])
  <2>1. t \in tables /\ (t \in DOMAIN keys => k \in keys[t])
    BY <1>5 DEF Covers
  <2>2. t \in DOMAIN m => t \in DOMAIN keys
    BY <1>3, <1>4, <2>1
  <2> QED
    BY <1>1, <2>1, <2>2
<1>6. ASSUME NEW t, NEW k, <<t, k>> \in NamedIn(changes, Tables)
      PROVE  t \in tables \cup named /\ (t \in DOMAIN m => k \in m[t])
  <2>1. PICK c \in Range(changes) : t = c.table /\ k = c.key
    BY <1>6 DEF NamedIn
  <2>2. t \in DOMAIN m => t \in DOMAIN b
    BY <1>3, <2>1
  <2>3. t \in DOMAIN b => k \in b[t]
    BY <1>2, <2>1
  <2>4. t \in DOMAIN m => m[t] = Known(t) \cup b[t]
    BY <1>1, <2>1
  <2>5. t \in named
    BY <2>1
  <2> HIDE DEF Known, LeftOut
  <2> QED
    BY <2>2, <2>3, <2>4, <2>5
<1>7. ASSUME NEW t \in DOMAIN m PROVE Reportable(m[t])
  <2>1. CASE t \in named
    <3>1. ~Overflows(Known(t), b[t]) /\ m[t] = Known(t) \cup b[t]
      BY <1>1, <1>3, <2>1
    <3> HIDE DEF Known
    <3> QED
      BY <3>1 DEF Overflows
  <2>2. CASE t \notin named
    BY <1>1, <1>4, <2>2 DEF Bounded
  <2> QED
    BY <2>1, <2>2
<1> HIDE DEF LeftOut, Known
<1>8. Covers(tables \cup named, m, P \cup NamedIn(changes, Tables))
  BY <1>5, <1>6 DEF Covers
<1>9. Bounded(m)
  BY <1>7 DEF Bounded
<1> QED
  BY <1>8, <1>9 DEF m, b

\* A candidate so far: its report covers what it differs in from the committed storage.
CandidateOK(acc) ==
    /\ acc = [error |-> acc.error, db |-> acc.db, mutated |-> acc.mutated, tables |-> acc.tables,
              keys |-> acc.keys]
    /\ acc.error \in PlanErrors
    /\ \E P : DiffersIn(db, acc.db, P) /\ Covers(acc.tables, acc.keys, P)
    /\ Bounded(acc.keys)

\* A statement on a candidate leaves a candidate that reports its differences.
LEMMA CandidateStatementOK ==
    ASSUME ForeignOK(foreign), NEW acc, CandidateOK(acc), NEW s, IsStatement(s), NEW kept
    PROVE  CandidateOK(CandidateStatement(acc, s, kept))
<1> DEFINE x == NewTransaction(acc.db.revision)
           p == PlanDml(acc.db, x, foreign, s, kept)
           a == ApplyByTable(acc.db, p.changes)
<1>1. CASE acc.error # "none"
  BY <1>1 DEF CandidateStatement
<1>2. CASE acc.error = "none"
  <2> PICK P : DiffersIn(db, acc.db, P) /\ Covers(acc.tables, acc.keys, P)
    BY DEF CandidateOK
  <2>1. StorageOK(acc.db) /\ Bounded(acc.keys)
    BY DEF CandidateOK, DiffersIn
  <2>2. SeesCommitted(acc.db, x)
    BY NewTransactionOK
  <2>3. CandidateStatement(acc, s, kept) = CandidatePlanned(acc, p)
    BY <1>2 DEF CandidateStatement
  <2> HIDE DEF x
  <2>4. TxnOK(acc.db, x)
    BY <2>2 DEF SeesCommitted
  <2>5. PlanOK(acc.db, x, p)
    BY <2>1, <2>4, PlanDmlOK
  <2> HIDE DEF p
  <2>6. p.changes \in Seq(Changes(acc.db, x)) /\ p.error \in PlanErrors
        /\ \A c \in Range(p.changes) : c.table \in Range(p.tables)
    BY <2>5 DEF PlanOK
  <2>7. AppliedOK(acc.db, NamedIn(p.changes, Tables), a)
    BY <2>1, <2>2, <2>6, ApplyByTableOK
  <2>8. ASSUME NEW e \in PlanErrors PROVE CandidateOK([acc EXCEPT !.error = e])
    <3> DEFINE r == [acc EXCEPT !.error = e]
    <3>1. acc = [error |-> acc.error, db |-> acc.db, mutated |-> acc.mutated, tables |-> acc.tables,
                 keys |-> acc.keys]
      BY DEF CandidateOK
    <3>2. r = [acc EXCEPT !.error = e]
      OBVIOUS
    <3> HIDE DEF r
    <3>3. r = [error |-> e, db |-> acc.db, mutated |-> acc.mutated, tables |-> acc.tables,
               keys |-> acc.keys]
      BY <3>1, <3>2
    <3>4. r = [error |-> r.error, db |-> r.db, mutated |-> r.mutated, tables |-> r.tables,
               keys |-> r.keys]
          /\ r.error = e /\ r.db = acc.db /\ r.tables = acc.tables /\ r.keys = acc.keys
      BY <3>3
    <3> QED
      BY <2>1, <3>2, <3>4 DEF CandidateOK
  <2> HIDE DEF a
  <2>9. a.error \in PlanErrors
    BY <2>7 DEF AppliedOK, PlanErrors
  <2>10. ASSUME a.error = "none", NEW mutated, NEW named, named = Range(p.tables)
         PROVE  CandidateOK([error |-> "none", db |-> a.db, mutated |-> mutated,
                             tables |-> acc.tables \cup named,
                             keys |-> MergeKeys(acc.tables, acc.keys, named, ChangedKeys(p.changes))])
    <3> DEFINE Q == NamedIn(p.changes, Tables)
               T == acc.tables \cup named
               K == MergeKeys(acc.tables, acc.keys, named, ChangedKeys(p.changes))
    <3>1. Covers(T, K, P \cup Q) /\ Bounded(K)
      BY <2>1, <2>6, <2>10, MergedReport
    <3>2. DiffersIn(db, acc.db, P) /\ DiffersIn(acc.db, a.db, Q)
      BY <2>7, <2>10 DEF AppliedOK
    <3> HIDE DEF Q, T, K
    <3>3. DiffersIn(db, a.db, P \cup Q)
      BY <3>2, DiffersInAll
    <3>4. "none" \in PlanErrors
      BY DEF PlanErrors
    <3>5. CandidateOK([error |-> "none", db |-> a.db, mutated |-> mutated, tables |-> T, keys |-> K])
      BY <3>1, <3>3, <3>4 DEF CandidateOK
    <3> QED
      BY <3>5 DEF T, K
  <2>11. CASE p.error # "none"
    <3>1. CandidatePlanned(acc, p) = [acc EXCEPT !.error = p.error]
      BY <2>11 DEF CandidatePlanned
    <3> QED
      BY <2>3, <2>6, <2>8, <3>1
  <2>12. CASE p.error = "none" /\ a.error # "none"
    <3>1. CandidatePlanned(acc, p) = [acc EXCEPT !.error = a.error]
      BY <2>12 DEF CandidatePlanned, CandidateApplied, a
    <3> QED
      BY <2>3, <2>8, <2>9, <3>1
  <2>13. CASE p.error = "none" /\ a.error = "none"
    <3> DEFINE mutated == acc.mutated \/ p.changes # <<>>
    <3>1. CandidatePlanned(acc, p)
            = [error |-> "none", db |-> a.db, mutated |-> mutated,
               tables |-> acc.tables \cup Range(p.tables),
               keys |-> MergeKeys(acc.tables, acc.keys, Range(p.tables), ChangedKeys(p.changes))]
      BY <2>13 DEF CandidatePlanned, CandidateApplied, a
    <3> HIDE DEF mutated
    <3> QED
      BY <2>3, <2>10, <2>13, <3>1
  <2> QED
    BY <2>11, <2>12, <2>13
<1> QED
  BY <1>1, <1>2

\* A script's statements are applied to the candidate in turn.
CandidateRun(script, kept, after) ==
    /\ Candidate(script, kept) = after[Len(script)]
    /\ after[0] = [error |-> "none", db |-> db, mutated |-> FALSE, tables |-> {}, keys |-> <<>>]
    /\ \A n \in 1..Len(script) : after[n] = CandidateStatement(after[n - 1], script[n], kept)

\* The loop has such a run.
LEMMA CandidateLoop ==
    ASSUME NEW script, NEW kept, Len(script) \in Nat
    PROVE  \E after : CandidateRun(script, kept, after)
<1> DEFINE start == [error |-> "none", db |-> db, mutated |-> FALSE, tables |-> {}, keys |-> <<>>]
           Step(f, n) == CandidateStatement(f[n - 1], script[n], kept)
           E(m, f) == f = [n \in 0..m |-> IF n = 0 THEN start ELSE Step(f, n)]
           I == {m \in 0..Len(script) : \E f : E(m, f)}
<1>1. Candidate(script, kept) = (CHOOSE f : E(Len(script), f))[Len(script)]
  BY DEF Candidate
<1>2. E(0, [n \in 0..0 |-> start])
  <2> HIDE DEF Step, start
  <2> QED
    OBVIOUS
<1>3. ASSUME NEW m \in 0..(Len(script) - 1), NEW f, E(m, f)
      PROVE  \E g : E(m + 1, g)
  <2> DEFINE g == [n \in 0..(m + 1) |-> IF n = m + 1 THEN Step(f, n) ELSE f[n]]
  <2>1. ASSUME NEW n \in 0..(m + 1), n # 0 PROVE Step(g, n) = Step(f, n)
    <3>1. g[n - 1] = f[n - 1]
      BY <2>1
    <3> QED
      BY <3>1
  <2> HIDE DEF Step, start
  <2>2. ASSUME NEW n \in 0..(m + 1), n # m + 1
        PROVE  f[n] = IF n = 0 THEN start ELSE Step(f, n)
    BY <1>3, <2>2
  <2>3. E(m + 1, g)
    BY <2>1, <2>2
  <2> QED
    BY <2>3
<1>4. \A f : E(Len(script), f) => /\ f[0] = start
                      /\ \A n \in 1..Len(script) : f[n] = Step(f, n)
  <2> HIDE DEF Step, start
  <2> QED
    OBVIOUS
<1> HIDE DEF E
<1>5. 0 \in I
  BY <1>2
<1>6. ASSUME NEW m \in 0..(Len(script) - 1), m \in I PROVE m + 1 \in I
  <2>1. PICK f : E(m, f)
    BY <1>6
  <2>2. m + 1 \in 0..Len(script) /\ \E g : E(m + 1, g)
    BY <2>1, <1>3
  <2> QED
    BY <2>2
<1>7. 0..Len(script) \subseteq I
  <2> HIDE DEF I
  <2> QED
    BY <1>5, <1>6, LoopInduction
<1>8. E(Len(script), CHOOSE f : E(Len(script), f))
  <2>1. Len(script) \in I
    BY <1>7
  <2> QED
    BY <2>1
<1> QED
  BY <1>1, <1>4, <1>8 DEF CandidateRun

\* A script made on a candidate: the committed storage is sound whatever it does.
LEMMA CandidateIs ==
    ASSUME StorageOK(db), ForeignOK(foreign), NEW n \in Nat, NEW script, Len(script) = n,
           \A i \in 1..n : IsStatement(script[i]), NEW kept
    PROVE  CandidateOK(Candidate(script, kept))
<1>1. PICK after : CandidateRun(script, kept, after)
  BY CandidateLoop
<1> DEFINE S == {m \in 0..n : CandidateOK(after[m])}
<1>2. after[0] = [error |-> "none", db |-> db, mutated |-> FALSE, tables |-> {}, keys |-> <<>>]
      /\ Candidate(script, kept) = after[n]
      /\ \A m \in 1..n : after[m] = CandidateStatement(after[m - 1], script[m], kept)
  BY <1>1 DEF CandidateRun
<1>3. 0 \in S
  <2>1. ASSUME NEW f, NEW t, NEW k, DOMAIN k = {}
        PROVE  CandidateOK([error |-> "none", db |-> db, mutated |-> f, tables |-> t, keys |-> k])
    <3>1. DiffersIn(db, db, {}) /\ "none" \in PlanErrors
      BY DiffersInNone DEF PlanErrors
    <3>2. Covers(t, k, {}) /\ Bounded(k)
      BY <2>1 DEF Covers, Bounded
    <3> QED
      BY <3>1, <3>2 DEF CandidateOK
  <2>2. CandidateOK(after[0])
    BY <1>2, <2>1
  <2> QED
    BY <2>2
<1>4. ASSUME NEW m \in 0..(n - 1), m \in S PROVE m + 1 \in S
  <2>1. m + 1 \in 1..n /\ (m + 1) - 1 = m
    OBVIOUS
  <2>2. after[m + 1] = CandidateStatement(after[m], script[m + 1], kept)
    BY <1>2, <2>1
  <2>3. CandidateOK(after[m]) /\ IsStatement(script[m + 1])
    BY <1>4, <2>1
  <2>4. CandidateOK(after[m + 1])
    BY <2>2, <2>3, CandidateStatementOK
  <2> QED
    BY <2>1, <2>4
<1>5. n \in 0..n
  OBVIOUS
<1> HIDE DEF S
<1>6. 0..n \subseteq S
  BY <1>3, <1>4, LoopInduction
<1> QED
  BY <1>2, <1>5, <1>6 DEF S

-----------------------------------------------------------------------------
(* A transaction's commit. *)

\* A finite set listed: each member once.
LEMMA SetListed ==
    ASSUME NEW S, IsFiniteSet(S)
    PROVE  /\ Cardinality(S) \in Nat /\ SetToSeq(S) \in [1..Cardinality(S) -> S] /\ Once(SetToSeq(S))
           /\ \A e \in S : \E i \in 1..Cardinality(S) : SetToSeq(S)[i] = e
<1> DEFINE n == Cardinality(S)
           D == 1..n
           q == SetToSeq(S)
<1>1. n \in Nat /\ ExistsBijection(D, S)
  BY FS_CardinalityType
<1>2. PICK f \in [D -> S] : IsInjective(f)
  BY <1>1 DEF ExistsBijection, Bijection, Injection
<1>3. q \in [D -> S] /\ IsInjective(q)
  BY <1>2 DEF SetToSeq
<1>4. Cardinality(D) = n
  BY <1>1, FS_Interval
<1> HIDE DEF n, D, q
<1>5. q \in Injection(D, S)
  BY <1>3 DEF Injection
<1>6. q \in Surjection(D, S)
  BY <1>4, <1>5, FS_Injection DEF n
<1>7. \A e \in S : \E i \in D : q[i] = e
  BY <1>6 DEF Surjection
<1>8. Once(q)
  BY <1>3 DEF IsInjective, Once
<1> QED
  BY <1>1, <1>3, <1>7, <1>8 DEF n, D, q

\* The tables a transaction changed are written in turn.
CommitTablesRun(changed, tables, after) ==
    /\ CommitTables(changed, tables) = after[Len(tables)]
    /\ after[0] = [error |-> "none", db |-> db]
    /\ \A n \in 1..Len(tables) : after[n] = ApplyEntries(after[n - 1], tables[n], changed[tables[n]])

\* The loop has such a run.
LEMMA CommitTablesLoop ==
    ASSUME NEW changed, NEW tables, Len(tables) \in Nat
    PROVE  \E after : CommitTablesRun(changed, tables, after)
<1> DEFINE start == [error |-> "none", db |-> db]
           Step(f, n) == ApplyEntries(f[n - 1], tables[n], changed[tables[n]])
           E(m, f) == f = [n \in 0..m |-> IF n = 0 THEN start ELSE Step(f, n)]
           I == {m \in 0..Len(tables) : \E f : E(m, f)}
<1>1. CommitTables(changed, tables) = (CHOOSE f : E(Len(tables), f))[Len(tables)]
  BY DEF CommitTables
<1>2. E(0, [n \in 0..0 |-> start])
  <2> HIDE DEF Step, start
  <2> QED
    OBVIOUS
<1>3. ASSUME NEW m \in 0..(Len(tables) - 1), NEW f, E(m, f)
      PROVE  \E g : E(m + 1, g)
  <2> DEFINE g == [n \in 0..(m + 1) |-> IF n = m + 1 THEN Step(f, n) ELSE f[n]]
  <2>1. ASSUME NEW n \in 0..(m + 1), n # 0 PROVE Step(g, n) = Step(f, n)
    <3>1. g[n - 1] = f[n - 1]
      BY <2>1
    <3> QED
      BY <3>1
  <2> HIDE DEF Step, start
  <2>2. ASSUME NEW n \in 0..(m + 1), n # m + 1
        PROVE  f[n] = IF n = 0 THEN start ELSE Step(f, n)
    BY <1>3, <2>2
  <2>3. E(m + 1, g)
    BY <2>1, <2>2
  <2> QED
    BY <2>3
<1>4. \A f : E(Len(tables), f) => /\ f[0] = start
                      /\ \A n \in 1..Len(tables) : f[n] = Step(f, n)
  <2> HIDE DEF Step, start
  <2> QED
    OBVIOUS
<1> HIDE DEF E
<1>5. 0 \in I
  BY <1>2
<1>6. ASSUME NEW m \in 0..(Len(tables) - 1), m \in I PROVE m + 1 \in I
  <2>1. PICK f : E(m, f)
    BY <1>6
  <2>2. m + 1 \in 0..Len(tables) /\ \E g : E(m + 1, g)
    BY <2>1, <1>3
  <2> QED
    BY <2>2
<1>7. 0..Len(tables) \subseteq I
  <2> HIDE DEF I
  <2> QED
    BY <1>5, <1>6, LoopInduction
<1>8. E(Len(tables), CHOOSE f : E(Len(tables), f))
  <2>1. Len(tables) \in I
    BY <1>7
  <2> QED
    BY <2>1
<1> QED
  BY <1>1, <1>4, <1>8 DEF CommitTablesRun

\* A row is found as a changed entry leaves it, and otherwise as it is committed.
LEMMA LookupChanged ==
    ASSUME NEW x, TxnOK(db, x), NEW t \in Tables, NEW k
    PROVE  /\ k \in ChangedKeysIn(x.tables[t]) => Lookup(db, x, t, k) = EntryAt(x.tables[t], k).next
           /\ k \notin ChangedKeysIn(x.tables[t]) => Lookup(db, x, t, k) = CommittedRow(db, t, k)
<1> DEFINE o == x.tables[t]
<1>1. EntriesOK(db, t, o)
  BY DEF TxnOK, OverlayOK
<1>2. Lookup(db, x, t, k) = IF k \in KeysIn(o) THEN EntryAt(o, k).next ELSE CommittedRow(db, t, k)
  BY DEF Lookup
<1>3. k \in ChangedKeysIn(o) <=> k \in KeysIn(o) /\ EntryAt(o, k).changed
  BY DEF ChangedKeysIn
<1>4. k \in KeysIn(o) => IsEntry(db, t, k, EntryAt(o, k))
  BY <1>1, EntryIs
<1> HIDE DEF o
<1>5. k \in ChangedKeysIn(o) => Lookup(db, x, t, k) = EntryAt(o, k).next
  BY <1>2, <1>3
<1>6. k \notin ChangedKeysIn(o) => Lookup(db, x, t, k) = CommittedRow(db, t, k)
  BY <1>2, <1>3, <1>4 DEF IsEntry
<1> QED
  BY <1>5, <1>6 DEF o

\* No two rows a transaction sees take a value.
LEMMA ViewIsUnique ==
    ASSUME StorageOK(db), NEW x, TxnOK(db, x), NEW t \in Tables, NEW s, NEW k, NEW j,
           Takes(t, Lookup(db, x, t, k), s), Takes(t, Lookup(db, x, t, j), s)
    PROVE  k = j
<1> DEFINE C == ChangedKeysIn(x.tables[t])
           L(i) == Lookup(db, x, t, i)
<1>1. \A i : i \in C /\ Takes(t, L(i), s) => ClaimedBy(x.tables, t, i, s)
  BY LookupChanged DEF ClaimedBy
<1>2. \A i : i \notin C => L(i) = CommittedRow(db, t, i)
  BY LookupChanged
<1>3. \A i : ClaimedBy(x.tables, t, i, s) =>
        /\ x.claims[s] = i
        /\ \A m : Takes(t, CommittedRow(db, t, m), s) => m = i \/ m \in C
  BY DEF TxnOK, ClaimsOK
<1>4. \A i, m : Takes(t, CommittedRow(db, t, i), s) /\ Takes(t, CommittedRow(db, t, m), s) => i = m
  BY DEF StorageOK, UniqueStored
<1>5. Takes(t, L(k), s) /\ Takes(t, L(j), s)
  OBVIOUS
<1> HIDE DEF C, L
<1>6. CASE k \in C /\ j \in C
  BY <1>1, <1>3, <1>5, <1>6
<1>7. CASE k \in C /\ j \notin C
  BY <1>1, <1>2, <1>3, <1>5, <1>7
<1>8. CASE k \notin C /\ j \in C
  BY <1>1, <1>2, <1>3, <1>5, <1>8
<1>9. CASE k \notin C /\ j \notin C
  BY <1>2, <1>4, <1>5, <1>9
<1> QED
  BY <1>6, <1>7, <1>8, <1>9

(***************************************************************************)
(* The rows a transaction changed, with the rows they replace, take no     *)
(* value twice once they are written.                                      *)
(***************************************************************************)
RowsIn(entries) == [i \in DOMAIN entries |-> WrittenRow(entries[i])]
ChangedOK(changed) ==
    /\ DOMAIN changed \subseteq Tables
    /\ \A t \in DOMAIN changed :
        /\ changed[t] \in Seq(StagedEntries(db, t))
        /\ \A i, j \in DOMAIN changed[t] : changed[t][i].key = changed[t][j].key => i = j
        /\ KeepsUnique(db, t, RowsIn(changed[t]))
ChangedRowKeys(changed) == [t \in DOMAIN changed |-> {e.key : e \in Range(changed[t])}]

\* The row under a key once the changed rows are written.
CommitsTo(changed, t, k) ==
    IF t \in DOMAIN changed THEN Written(db, t, RowsIn(changed[t]), k) ELSE CommittedRow(db, t, k)

\* The rows of entries, and what they say.
LEMMA RowsInAre ==
    ASSUME NEW t, NEW e, e \in Seq(StagedEntries(db, t)), NEW rows, rows = RowsIn(e)
    PROVE  /\ DOMAIN rows = DOMAIN e /\ Len(rows) = Len(e) /\ Len(e) \in Nat /\ DOMAIN e = 1..Len(e)
           /\ \A i \in DOMAIN e : /\ rows[i].key = e[i].key /\ rows[i].old = e[i].entry.old
                                  /\ rows[i].next = e[i].entry.next
<1>1. Len(e) \in Nat /\ DOMAIN e = 1..Len(e)
  OBVIOUS
<1>2. \A i \in DOMAIN e : rows[i] = [key |-> e[i].key, old |-> e[i].entry.old, next |-> e[i].entry.next]
  BY DEF WrittenRow, RowsIn
<1>3. DOMAIN rows = DOMAIN e /\ rows = [i \in DOMAIN e |-> rows[i]]
  BY DEF RowsIn
<1>4. Len(rows) = Len(e)
  BY <1>1, <1>3, HoldsItsRange
<1>5. \A i \in DOMAIN e : /\ rows[i].key = e[i].key /\ rows[i].old = e[i].entry.old
                          /\ rows[i].next = e[i].entry.next
  <2> SUFFICES ASSUME NEW i \in DOMAIN e
               PROVE  /\ rows[i].key = e[i].key /\ rows[i].old = e[i].entry.old
                      /\ rows[i].next = e[i].entry.next
    OBVIOUS
  <2> DEFINE f == e[i]
             row == rows[i]
  <2>1. row = [key |-> f.key, old |-> f.entry.old, next |-> f.entry.next]
    BY <1>2
  <2> HIDE DEF f, row
  <2>2. row.key = f.key /\ row.old = f.entry.old /\ row.next = f.entry.next
    BY <2>1
  <2> QED
    BY <2>2 DEF f, row
<1> QED
  BY <1>1, <1>3, <1>4, <1>5

\* Entries that differ in their keys are rows to write to the storage they start from.
LEMMA EntriesToWrite ==
    ASSUME NEW storage, NEW t, NEW e, e \in Seq(StagedEntries(db, t)),
           \A i, j \in DOMAIN e : e[i].key = e[j].key => i = j,
           \A k : CommittedRow(storage, t, k) = CommittedRow(db, t, k)
    PROVE  RowsToWrite(storage, t, RowsIn(e))
<1> DEFINE rows == RowsIn(e)
<1>1. /\ DOMAIN rows = DOMAIN e /\ Len(rows) = Len(e) /\ Len(e) \in Nat /\ DOMAIN e = 1..Len(e)
      /\ \A i \in DOMAIN e : /\ rows[i].key = e[i].key /\ rows[i].old = e[i].entry.old
                             /\ rows[i].next = e[i].entry.next
  BY RowsInAre
<1>2. \A i \in DOMAIN e : e[i] \in StagedEntries(db, t)
  OBVIOUS
<1> HIDE DEF rows
<1>3. \A i \in DOMAIN e : /\ e[i].key \in Keys(t) /\ e[i].entry.next \in Under(t, e[i].key)
                          /\ e[i].entry.old = CommittedRow(db, t, e[i].key)
  BY <1>2, StagedEntryIs
<1>4. KeysDiffer(rows, Len(rows))
  BY <1>1 DEF KeysDiffer
<1> QED
  BY <1>1, <1>3, <1>4 DEF RowsToWrite, rows

\* What a table's listed changes leave is what the transaction sees in it.
LEMMA ListedIsView ==
    ASSUME NEW x, TxnOK(db, x), NEW t \in Tables, NEW c, ListsChanged(db, t, x.tables[t], c), NEW k
    PROVE  Written(db, t, RowsIn(c), k) = Lookup(db, x, t, k)
<1> DEFINE o == x.tables[t]
           rows == RowsIn(c)
<1>1. /\ c \in Seq(StagedEntries(db, t))
      /\ \A e : e \in Range(c) <=> e \in Range(o.rows) /\ e.entry.changed
      /\ \A i, j \in DOMAIN c : c[i].key = c[j].key => i = j
  BY DEF ListsChanged
<1>2. EntriesOK(db, t, o)
  BY DEF TxnOK, OverlayOK
<1>3. RowsToWrite(db, t, rows)
  BY <1>1, EntriesToWrite
<1>4. DOMAIN rows = DOMAIN c /\ \A i \in DOMAIN c : rows[i].key = c[i].key /\ rows[i].next = c[i].entry.next
  BY <1>1, RowsInAre
<1>5. /\ k \in ChangedKeysIn(o) => Lookup(db, x, t, k) = EntryAt(o, k).next
      /\ k \notin ChangedKeysIn(o) => Lookup(db, x, t, k) = CommittedRow(db, t, k)
  BY LookupChanged
<1>6. /\ \A i \in DOMAIN o.rows : o.rows[i].key \in KeysIn(o) /\ EntryAt(o, o.rows[i].key) = o.rows[i].entry
      /\ \A j \in KeysIn(o) : /\ Find(o, j) \in DOMAIN o.rows
                              /\ o.rows[Find(o, j)] = [key |-> j, entry |-> EntryAt(o, j)]
  BY <1>2, EntryAtIs
<1> HIDE DEF o, rows
<1>7. ASSUME NEW i \in DOMAIN c, c[i].key = k
      PROVE  k \in ChangedKeysIn(o) /\ EntryAt(o, k) = c[i].entry
  <2>1. c[i] \in Range(o.rows) /\ c[i].entry.changed
    BY <1>1 DEF Range
  <2>2. PICK j \in DOMAIN o.rows : o.rows[j] = c[i]
    BY <2>1 DEF Range
  <2> QED
    BY <1>6, <1>7, <2>1, <2>2 DEF ChangedKeysIn
<1>8. ASSUME k \in ChangedKeysIn(o) PROVE \E i \in DOMAIN c : c[i].key = k
  <2>1. k \in KeysIn(o) /\ EntryAt(o, k).changed
    BY <1>8 DEF ChangedKeysIn
  <2> DEFINE i == Find(o, k)
             e == o.rows[i]
  <2>2. e \in Range(o.rows) /\ e.key = k /\ e.entry.changed
    <3>1. i \in DOMAIN o.rows /\ e = [key |-> k, entry |-> EntryAt(o, k)]
      BY <1>6, <2>1
    <3> HIDE DEF i
    <3>2. e \in Range(o.rows)
      BY <3>1 DEF Range
    <3> HIDE DEF e
    <3> QED
      BY <2>1, <3>1, <3>2
  <2> HIDE DEF e
  <2>3. e \in Range(c)
    BY <1>1, <2>2
  <2> QED
    BY <2>2, <2>3 DEF Range
<1>9. CASE k \in ChangedKeysIn(o)
  <2>1. PICK i \in DOMAIN c : c[i].key = k
    BY <1>8, <1>9
  <2>2. Written(db, t, rows, rows[i].key) = rows[i].next
    BY <1>3, <1>4, WrittenIs
  <2> QED
    BY <1>4, <1>5, <1>7, <1>9, <2>1, <2>2 DEF rows
<1>10. CASE k \notin ChangedKeysIn(o)
  <2>1. \A i \in DOMAIN rows : rows[i].key # k
    BY <1>4, <1>7, <1>10
  <2> QED
    BY <1>3, <1>5, <1>10, <2>1, WrittenIs DEF rows
<1> QED
  BY <1>9, <1>10

\* What a sound transaction changed is of the tables it touched, and leaves what it sees.
LEMMA ChangedRowsOK ==
    ASSUME StorageOK(db), NEW x, TxnOK(db, x)
    PROVE  /\ ChangedOK(ChangedRows(x)) /\ DOMAIN ChangedRows(x) \subseteq x.touched
           /\ \A t \in Tables : \A k : CommitsTo(ChangedRows(x), t, k) = Lookup(db, x, t, k)
<1> DEFINE c == ChangedRows(x)
<1>1. DOMAIN c = {u \in Tables : HasChanges(x, u)} /\ \A t \in DOMAIN c : c[t] = ChangedAmong(Ordered(x.tables[t]))
  BY DEF ChangedRows, ChangedEntries
<1> HIDE DEF c
<1>2. ASSUME NEW t \in DOMAIN c
      PROVE  /\ c[t] \in Seq(StagedEntries(db, t)) /\ t \in x.touched
             /\ \A i, j \in DOMAIN c[t] : c[t][i].key = c[t][j].key => i = j
             /\ \A k : Written(db, t, RowsIn(c[t]), k) = Lookup(db, x, t, k)
             /\ KeepsUnique(db, t, RowsIn(c[t]))
  <2>1. t \in Tables /\ HasChanges(x, t)
    BY <1>1
  <2>2. OverlayOK(db, t, x.tables[t])
    BY <2>1 DEF TxnOK
  <2>3. ListsChanged(db, t, x.tables[t], c[t])
    BY <1>1, <2>1, <2>2, ChangedAmongIs
  <2>4. x.tables[t].rows # <<>>
    <3>1. SUFFICES ASSUME x.tables[t].rows = <<>> PROVE FALSE
      OBVIOUS
    <3>2. Range(<<>>) = {}
      BY DEF Range
    <3> QED
      BY <2>1, <3>1, <3>2 DEF HasChanges
  <2>5. t \in x.touched
    BY <2>1, <2>4 DEF TxnOK
  <2>6. \A k : Written(db, t, RowsIn(c[t]), k) = Lookup(db, x, t, k)
    BY <2>1, <2>3, ListedIsView
  <2>7. KeepsUnique(db, t, RowsIn(c[t]))
    BY <2>1, <2>6, ViewIsUnique DEF KeepsUnique
  <2> QED
    BY <2>3, <2>5, <2>6, <2>7 DEF ListsChanged
<1>3. ChangedOK(c) /\ DOMAIN c \subseteq x.touched
  BY <1>1, <1>2 DEF ChangedOK
<1>4. ASSUME NEW t \in Tables, NEW k PROVE CommitsTo(c, t, k) = Lookup(db, x, t, k)
  <2>1. CASE t \in DOMAIN c
    BY <1>2, <2>1 DEF CommitsTo
  <2>2. CASE t \notin DOMAIN c
    <3> DEFINE o == x.tables[t]
    <3>1. ~\E e \in Range(o.rows) : e.entry.changed
      BY <1>1, <2>2 DEF HasChanges
    <3>2. EntriesOK(db, t, o)
      BY DEF TxnOK, OverlayOK
    <3>3. \A j \in KeysIn(o) : /\ Find(o, j) \in DOMAIN o.rows
                               /\ o.rows[Find(o, j)] = [key |-> j, entry |-> EntryAt(o, j)]
      BY <3>2, EntryAtIs
    <3>4. Lookup(db, x, t, k) = CommittedRow(db, t, k) \/ k \in ChangedKeysIn(o)
      BY LookupChanged
    <3> HIDE DEF o
    <3>5. ASSUME k \in ChangedKeysIn(o) PROVE FALSE
      <4>1. k \in KeysIn(o) /\ EntryAt(o, k).changed
        BY <3>5 DEF ChangedKeysIn
      <4> DEFINE i == Find(o, k)
                 e == o.rows[i]
      <4>2. i \in DOMAIN o.rows /\ e = [key |-> k, entry |-> EntryAt(o, k)]
        BY <3>3, <4>1
      <4> HIDE DEF i
      <4>3. e \in Range(o.rows)
        BY <4>2 DEF Range
      <4> HIDE DEF e
      <4> QED
        BY <3>1, <4>1, <4>2, <4>3
    <3> QED
      BY <2>2, <3>4, <3>5 DEF CommitsTo
  <2> QED
    BY <2>1, <2>2
<1> QED
  BY <1>3, <1>4 DEF c

\* One table's changed rows are in place, and the rows of the others as they were.
TableLeft(changed, t, before, after) ==
    /\ \A k : CommittedRow(after, t, k) = CommitsTo(changed, t, k)
    /\ \A u \in Tables \ {t} : \A k : CommittedRow(after, u, k) = CommittedRow(before, u, k)

\* One table's entries are written, and the other tables stay as they were.
LEMMA ApplyEntriesOK ==
    ASSUME NEW changed, ChangedOK(changed), NEW t \in DOMAIN changed, NEW T, t \notin T, NEW acc,
           acc.error = "none", DiffersIn(db, acc.db, ReportedIn(T, ChangedRowKeys(changed))),
           NEW r, r = ApplyEntries(acc, t, changed[t])
    PROVE  /\ r.error = "none" /\ DiffersIn(db, r.db, ReportedIn(T \cup {t}, ChangedRowKeys(changed)))
           /\ TableLeft(changed, t, acc.db, r.db)
<1> DEFINE s == acc.db
           e == changed[t]
           rows == RowsIn(e)
           K == ChangedRowKeys(changed)
           P == ReportedIn(T, K)
           Q == KeysWritten(t, rows)
           A == ReportedIn(T \cup {t}, K)
<1>1. /\ t \in Tables /\ e \in Seq(StagedEntries(db, t))
      /\ \A i, j \in DOMAIN e : e[i].key = e[j].key => i = j
      /\ KeepsUnique(db, t, rows)
  BY DEF ChangedOK
<1>2. K = [u \in DOMAIN changed |-> {d.key : d \in Range(changed[u])}]
  BY DEF ChangedRowKeys
<1>3. StorageOK(s) /\ \A k : CommittedRow(s, t, k) = CommittedRow(db, t, k)
  <2>1. \A k : <<t, k>> \notin P
    BY IsReported
  <2> QED
    BY <1>1, <2>1 DEF DiffersIn
<1>4. r = ApplyRowChanges(s, t, rows)
  BY DEF ApplyEntries, RowsIn
<1>5. DOMAIN rows = DOMAIN e /\ \A i \in DOMAIN e : rows[i].key = e[i].key
  BY <1>1, RowsInAre
<1>6. \A k : CommitsTo(changed, t, k) = Written(db, t, rows, k)
  BY DEF CommitsTo
<1>7. RowsToWrite(s, t, rows)
  BY <1>1, <1>3, EntriesToWrite
<1>8. \A i \in DOMAIN rows : t \in DOMAIN K /\ rows[i].key \in K[t]
  <2> HIDE DEF rows
  <2> QED
    BY <1>2, <1>5 DEF Range
<1> HIDE DEF rows, e, K
<1>9. \A k : Written(s, t, rows, k) = Written(db, t, rows, k)
  BY <1>3 DEF Written
<1>10. KeepsUnique(s, t, rows)
  BY <1>1, <1>9 DEF KeepsUnique
<1> HIDE DEF s
<1>11. /\ r.error = "none" /\ DiffersIn(s, r.db, Q)
       /\ \A k : CommittedRow(r.db, t, k) = Written(s, t, rows, k)
  BY <1>1, <1>3, <1>4, <1>7, <1>10, ApplyRowChangesOK
<1>12. ASSUME NEW u \in Tables \ {t}, NEW k PROVE CommittedRow(r.db, u, k) = CommittedRow(s, u, k)
  <2>1. <<u, k>> \notin Q
    BY DEF KeysWritten
  <2> QED
    BY <1>11, <2>1 DEF DiffersIn
<1>13. Q \subseteq A
  <2>1. \A i \in DOMAIN rows : <<t, rows[i].key>> \in A
    BY <1>8, IsReported
  <2> QED
    BY <2>1 DEF KeysWritten
<1>14. P \subseteq A
  BY DEF ReportedIn
<1>15. DiffersIn(db, s, P)
  BY DEF s, K
<1> HIDE DEF P, Q, A
<1>16. DiffersIn(db, r.db, A)
  BY <1>11, <1>13, <1>14, <1>15, DiffersInAll
<1>17. TableLeft(changed, t, s, r.db)
  BY <1>6, <1>9, <1>11, <1>12 DEF TableLeft
<1> QED
  BY <1>11, <1>16, <1>17 DEF A, K, s

\* A commit meets the rows and entries it expects, and changes only what it reports.
LEMMA CommitOfOK ==
    ASSUME StorageOK(db), NEW changed, ChangedOK(changed)
    PROVE  /\ CommitOf(changed).error = "none"
           /\ DiffersIn(db, CommitOf(changed).db, ReportedIn(DOMAIN changed, ChangedRowKeys(changed)))
           /\ \A t \in Tables : \A k : CommittedRow(CommitOf(changed).db, t, k) = CommitsTo(changed, t, k)
<1> DEFINE tables == SetToSeq(DOMAIN changed)
           n == Cardinality(DOMAIN changed)
<1>1. IsFiniteSet(DOMAIN changed)
  BY CatalogAssumption, FS_Subset DEF ChangedOK
<1>2. n \in Nat /\ tables \in [1..n -> DOMAIN changed] /\ Once(tables)
  BY <1>1, SetListed
<1> HIDE DEF tables, n
<1>3. Len(tables) = n
  BY <1>2, FunctionIsSeq
<1>4. PICK after : CommitTablesRun(changed, tables, after)
  BY <1>2, <1>3, CommitTablesLoop
<1>5. after[0] = [error |-> "none", db |-> db] /\ CommitOf(changed) = after[n]
      /\ \A m \in 1..n : after[m] = ApplyEntries(after[m - 1], tables[m], changed[tables[m]])
  BY <1>3, <1>4 DEF CommitTablesRun, CommitOf, tables
<1> DEFINE T(m) == {tables[i] : i \in 1..m}
           OK(m) == /\ after[m].error = "none"
                    /\ DiffersIn(db, after[m].db, ReportedIn(T(m), ChangedRowKeys(changed)))
           Leaves(m) == \A t \in Tables : \A k : CommittedRow(after[m].db, t, k) =
                            IF t \in T(m) THEN CommitsTo(changed, t, k) ELSE CommittedRow(db, t, k)
           S == {m \in 0..n : OK(m) /\ Leaves(m)}
<1>6. 0 \in S
  <2>1. after[0].error = "none" /\ after[0].db = db
    BY <1>5
  <2>2. OK(0)
    <3> HIDE DEF T
    <3> QED
      BY <2>1, DiffersInNone
  <2>3. Leaves(0)
    <3>1. T(0) = {}
      OBVIOUS
    <3> HIDE DEF T
    <3> QED
      BY <2>1, <3>1
  <2> HIDE DEF OK, Leaves
  <2> QED
    BY <1>2, <2>2, <2>3
<1>7. ASSUME NEW m \in 0..(n - 1), m \in S PROVE m + 1 \in S
  <2> DEFINE a == after[m]
             b == after[m + 1]
             t == tables[m + 1]
             H == T(m)
             K == ChangedRowKeys(changed)
  <2>1. m + 1 \in 1..n /\ (m + 1) - 1 = m /\ m + 1 \in 0..n
    BY <1>2
  <2>2. b = ApplyEntries(a, t, changed[t])
    BY <1>5, <2>1
  <2>3. OK(m) /\ Leaves(m)
    BY <1>7
  <2>4. a.error = "none" /\ DiffersIn(db, a.db, ReportedIn(H, K))
    BY <2>3
  <2>5. \A u \in Tables : \A k : CommittedRow(a.db, u, k) =
            IF u \in H THEN CommitsTo(changed, u, k) ELSE CommittedRow(db, u, k)
    BY <2>3
  <2>6. t \notin H
    BY <1>2, <2>1 DEF Once
  <2>7. T(m + 1) = H \cup {t}
    BY <1>2
  <2>8. t \in DOMAIN changed
    BY <1>2, <2>1
  <2> HIDE DEF a, b, t, H, K, T, S
  <2>9. /\ b.error = "none" /\ DiffersIn(db, b.db, ReportedIn(H \cup {t}, K))
        /\ \A k : CommittedRow(b.db, t, k) = CommitsTo(changed, t, k)
        /\ \A u \in Tables \ {t} : \A k : CommittedRow(b.db, u, k) = CommittedRow(a.db, u, k)
    <3>1. DiffersIn(db, a.db, ReportedIn(H, ChangedRowKeys(changed)))
      BY <2>4 DEF K
    <3>2. b.error = "none" /\ DiffersIn(db, b.db, ReportedIn(H \cup {t}, ChangedRowKeys(changed)))
      BY <2>2, <2>4, <2>6, <2>8, <3>1, ApplyEntriesOK
    <3>3. TableLeft(changed, t, a.db, b.db)
      BY <2>2, <2>4, <2>6, <2>8, <3>1, ApplyEntriesOK
    <3> QED
      BY <3>2, <3>3 DEF K, TableLeft
  <2>10. OK(m + 1)
    BY <2>7, <2>9 DEF b, K
  <2>11. \A u \in Tables : \A k : CommittedRow(b.db, u, k) =
            IF u \in H \cup {t} THEN CommitsTo(changed, u, k) ELSE CommittedRow(db, u, k)
    BY <2>5, <2>9
  <2>12. Leaves(m + 1)
    BY <2>7, <2>11 DEF b
  <2> HIDE DEF OK, Leaves
  <2> QED
    BY <2>1, <2>10, <2>12 DEF S
<1>8. n \in 0..n
  BY <1>2
<1> HIDE DEF S
<1>9. 0..n \subseteq S
  BY <1>2, <1>6, <1>7, LoopInduction
<1>10. OK(n) /\ Leaves(n)
  BY <1>8, <1>9 DEF S
<1>11. ReportedIn(T(n), ChangedRowKeys(changed)) \subseteq ReportedIn(DOMAIN changed, ChangedRowKeys(changed))
  <2>1. T(n) \subseteq DOMAIN changed
    BY <1>2
  <2> QED
    BY <2>1 DEF ReportedIn
<1>12. \A t : t \in T(n) <=> t \in DOMAIN changed
  <2>1. \A t \in DOMAIN changed : \E i \in 1..n : tables[i] = t
    BY <1>1, SetListed DEF tables, n
  <2> QED
    BY <1>2, <2>1
<1> HIDE DEF T
<1>13. \A t \in Tables : \A k : CommittedRow(CommitOf(changed).db, t, k) = CommitsTo(changed, t, k)
  BY <1>5, <1>10, <1>12 DEF CommitsTo
<1> QED
  BY <1>5, <1>10, <1>11, <1>13 DEF DiffersIn

-----------------------------------------------------------------------------
(* The first storage. *)

\* The rows of a table as they are first stored: one under each key.
FirstRows(t, rows) == [k \in {KeyOf(t, r) : r \in rows} |-> CHOOSE r \in rows : KeyOf(t, r) = k]

\* Valid rows with different keys are stored one under each key.
LEMMA FirstRowsOK ==
    ASSUME NEW t \in Tables, NEW rows, IsFiniteSet(rows), rows \subseteq Rows(t),
           \A r, q \in rows : KeyOf(t, r) = KeyOf(t, q) => r = q,
           \A r \in rows : RowIsValid(t, r)
    PROVE  RowsOK(t, FirstRows(t, rows)) /\ Cardinality(rows) = Cardinality(DOMAIN FirstRows(t, rows))
<1> DEFINE F == FirstRows(t, rows)
           f == [r \in rows |-> KeyOf(t, r)]
           D == DOMAIN F
<1>1. D = {KeyOf(t, r) : r \in rows} /\ F = [k \in D |-> F[k]]
      /\ \A k \in D : F[k] = CHOOSE r \in rows : KeyOf(t, r) = k
  BY DEF FirstRows
<1> HIDE DEF F
<1>2. \A k \in D : F[k] \in rows /\ KeyOf(t, F[k]) = k
  <2> TAKE k \in D
  <2>1. \E r \in rows : KeyOf(t, r) = k
    BY <1>1
  <2> QED
    BY <1>1, <2>1
<1>3. \A r \in rows : r \in StoredRows(t)
  BY DEF StoredRows
<1>4. \A k \in D : k \in Keys(t)
  BY <1>2, <1>3, StoredRowHasKey
<1>5. (\A r \in rows : f[r] \in D) /\ (\A r, q \in rows : f[r] = f[q] => r = q)
      /\ \A k \in D : \E r \in rows : f[r] = k
  BY <1>1
<1> HIDE DEF f, D
<1>6. IsFiniteSet(D)
  BY <1>5, SameSize
<1>7. Cardinality(D) = Cardinality(rows)
  BY <1>5, SameSize
<1>8. RowsOK(t, F)
  BY <1>1, <1>2, <1>3, <1>4, <1>6 DEF RowsOK, D
<1> QED
  BY <1>7, <1>8 DEF F, D

\* A storage of contents that meet their constraints is sound.
LEMMA StorageIsOK ==
    ASSUME NEW contents \in InitialContents, NEW foreigns, ConstraintsHold(contents, foreigns),
           NEW revision
    PROVE  StorageOK(Storage(revision, contents))
<1> DEFINE s == Storage(revision, contents)
           R == [t \in Tables |-> FirstRows(t, contents[t])]
<1>1. s = [revision |-> revision, rows |-> R,
           counts |-> [t \in Tables |-> Cardinality(contents[t])],
           entries |-> [x \in Indexes |-> EntriesOf(x, R[x.table])],
           entryCounts |-> [x \in Indexes |-> Cardinality(EntriesOf(x, R[x.table]))]]
  BY DEF Storage, FirstRows
<1>2. ASSUME NEW t \in Tables
      PROVE  RowsOK(t, R[t]) /\ Cardinality(contents[t]) = Cardinality(DOMAIN R[t])
  <2>1. IsFiniteSet(contents[t]) /\ contents[t] \subseteq Rows(t)
    BY DatabaseAssumption
  <2>2. \A r, q \in contents[t] : KeyOf(t, r) = KeyOf(t, q) => r = q
    BY DEF ConstraintsHold, KeysAreUnique
  <2>3. \A r \in contents[t] : RowIsValid(t, r)
    BY DEF ConstraintsHold
  <2> QED
    BY <2>1, <2>2, <2>3, FirstRowsOK
<1>3. R = [t \in Tables |-> R[t]]
  OBVIOUS
<1> HIDE DEF s, R
<1>4. /\ s = [revision |-> s.revision, rows |-> s.rows, counts |-> s.counts,
              entries |-> s.entries, entryCounts |-> s.entryCounts]
      /\ s.rows = R /\ s.counts = [t \in Tables |-> Cardinality(contents[t])]
      /\ s.entries = [x \in Indexes |-> EntriesOf(x, R[x.table])]
      /\ s.entryCounts = [x \in Indexes |-> Cardinality(EntriesOf(x, R[x.table]))]
  BY <1>1
<1>5. s.counts = [t \in Tables |-> Cardinality(DOMAIN s.rows[t])]
  BY <1>2, <1>4
<1>6. UniqueStored(s)
  <2> SUFFICES ASSUME NEW t \in Tables, NEW v, NEW k, NEW j, Takes(t, CommittedRow(s, t, k), v),
                      Takes(t, CommittedRow(s, t, j), v)
               PROVE  k = j
    BY DEF UniqueStored
  <2> DEFINE r == CommittedRow(s, t, k)
             q == CommittedRow(s, t, j)
  <2>1. ASSUME NEW l, Takes(t, CommittedRow(s, t, l), v)
        PROVE  CommittedRow(s, t, l) \in contents[t] /\ KeyOf(t, CommittedRow(s, t, l)) = l
    <3>1. l \in DOMAIN R[t] /\ CommittedRow(s, t, l) = R[t][l]
      BY <1>4, <2>1 DEF CommittedRow, Takes
    <3>2. KeyOf(t, R[t][l]) = l
      BY <1>2, <3>1 DEF RowsOK
    <3>3. R[t] = FirstRows(t, contents[t])
      BY DEF R
    <3>4. R[t][l] \in contents[t]
      BY <3>1, <3>3 DEF FirstRows
    <3> QED
      BY <3>1, <3>2, <3>4
  <2>2. r \in contents[t] /\ q \in contents[t] /\ KeyOf(t, r) = k /\ KeyOf(t, q) = j
    BY <2>1
  <2> HIDE DEF r, q
  <2>3. /\ v.index \in Indexes /\ v.index.table = t /\ v.index.unique /\ ~HasNull(v.value)
        /\ v.value = IndexValue(v.index, r)
    BY TakesIs DEF r
  <2>4. v.value = IndexValue(v.index, q)
    BY TakesIs DEF q
  <2>5. UniqueHolds(contents)
    BY DEF ConstraintsHold
  <2>6. r = q
    BY <2>2, <2>3, <2>4, <2>5 DEF UniqueHolds, IndexValue
  <2> QED
    BY <2>2, <2>6
<1> QED
  BY <1>2, <1>3, <1>4, <1>5, <1>6 DEF StorageOK, s

-----------------------------------------------------------------------------
(* Statements in a transaction. *)

ReplyErrors == PlanErrors \cup StageErrors \cup {"failed", "recovery"}

\* A statement's scan leaves the transaction's view as it was.
LEMMA ScannedIs ==
    ASSUME NEW x, TxnOK(db, x), NEW s, IsStatement(s)
    PROVE  SameView(db, x, Scanned(x, s))
<1>1. s.table \in Tables
  BY DEF IsStatement
<1>2. SameView(db, x, Merged(x, s.table))
  BY <1>1, MergedIs
<1>3. SameView(db, x, x)
  BY DEF SameView
<1> QED
  BY <1>2, <1>3 DEF Scanned

\* A plan is staged, or it is refused and the transaction is as it was.
ResultOK(result) == result.error \in ReplyErrors /\ TxnOK(db, result.txn)

\* A sound plan leaves a sound transaction, staged or refused.
LEMMA StagePlanOK ==
    ASSUME StorageOK(db), NEW x, NEW y, SameView(db, x, y), NEW p, PlanOK(db, x, p)
    PROVE  ResultOK(StagePlan(y, p))
<1>1. TxnOK(db, y)
  BY DEF SameView
<1>2. CASE p.error # "none"
  <2>1. StagePlan(y, p) = [error |-> p.error, txn |-> y]
    BY <1>2 DEF StagePlan, Refused
  <2> QED
    BY <1>1, <2>1 DEF ResultOK, ReplyErrors, PlanOK
<1>3. CASE p.error = "none"
  <2>1. StagePlan(y, p) = Stage(db, y, p.changes)
    BY <1>3 DEF StagePlan
  <2>2. p.changes \in Seq(Changes(db, y))
    BY SameChanges DEF PlanOK
  <2>3. StagedOK(db, Stage(db, y, p.changes))
    BY <1>1, <2>2, StageOK
  <2> QED
    BY <2>1, <2>3 DEF StagedOK, ResultOK, ReplyErrors
<1> QED
  BY <1>2, <1>3

\* A script's statements are staged in turn.
StageScriptRun(script, kept, after) ==
    /\ StageScript(script, kept) = after[Len(script)]
    /\ after[0] = [error |-> "none", txn |-> txn, tables |-> {}, keys |-> <<>>]
    /\ \A n \in 1..Len(script) : after[n] = StageFrom(after[n - 1], script[n], kept)

\* The loop has such a run.
LEMMA StageScriptLoop ==
    ASSUME NEW script, NEW kept, Len(script) \in Nat
    PROVE  \E after : StageScriptRun(script, kept, after)
<1> DEFINE start == [error |-> "none", txn |-> txn, tables |-> {}, keys |-> <<>>]
           Step(f, n) == StageFrom(f[n - 1], script[n], kept)
           E(m, f) == f = [n \in 0..m |-> IF n = 0 THEN start ELSE Step(f, n)]
           I == {m \in 0..Len(script) : \E f : E(m, f)}
<1>1. StageScript(script, kept) = (CHOOSE f : E(Len(script), f))[Len(script)]
  BY DEF StageScript
<1>2. E(0, [n \in 0..0 |-> start])
  <2> HIDE DEF Step, start
  <2> QED
    OBVIOUS
<1>3. ASSUME NEW m \in 0..(Len(script) - 1), NEW f, E(m, f)
      PROVE  \E g : E(m + 1, g)
  <2> DEFINE g == [n \in 0..(m + 1) |-> IF n = m + 1 THEN Step(f, n) ELSE f[n]]
  <2>1. ASSUME NEW n \in 0..(m + 1), n # 0 PROVE Step(g, n) = Step(f, n)
    <3>1. g[n - 1] = f[n - 1]
      BY <2>1
    <3> QED
      BY <3>1
  <2> HIDE DEF Step, start
  <2>2. ASSUME NEW n \in 0..(m + 1), n # m + 1
        PROVE  f[n] = IF n = 0 THEN start ELSE Step(f, n)
    BY <1>3, <2>2
  <2>3. E(m + 1, g)
    BY <2>1, <2>2
  <2> QED
    BY <2>3
<1>4. \A f : E(Len(script), f) => /\ f[0] = start
                      /\ \A n \in 1..Len(script) : f[n] = Step(f, n)
  <2> HIDE DEF Step, start
  <2> QED
    OBVIOUS
<1> HIDE DEF E
<1>5. 0 \in I
  BY <1>2
<1>6. ASSUME NEW m \in 0..(Len(script) - 1), m \in I PROVE m + 1 \in I
  <2>1. PICK f : E(m, f)
    BY <1>6
  <2>2. m + 1 \in 0..Len(script) /\ \E g : E(m + 1, g)
    BY <2>1, <1>3
  <2> QED
    BY <2>2
<1>7. 0..Len(script) \subseteq I
  <2> HIDE DEF I
  <2> QED
    BY <1>5, <1>6, LoopInduction
<1>8. E(Len(script), CHOOSE f : E(Len(script), f))
  <2>1. Len(script) \in I
    BY <1>7
  <2> QED
    BY <2>1
<1> QED
  BY <1>1, <1>4, <1>8 DEF StageScriptRun

\* A statement of a script staged on the copy leaves a sound copy.
LEMMA StageFromOK ==
    ASSUME StorageOK(db), ForeignOK(foreign), NEW acc, ResultOK(acc), NEW s, IsStatement(s), NEW kept
    PROVE  ResultOK(StageFrom(acc, s, kept))
<1> DEFINE p == PlanDml(db, acc.txn, foreign, s, kept)
           y == Scanned(acc.txn, s)
           r == StagePlan(y, p)
<1>1. CASE acc.error # "none"
  BY <1>1 DEF StageFrom
<1>2. CASE acc.error = "none"
  <2>1. TxnOK(db, acc.txn)
    BY DEF ResultOK
  <2>2. PlanOK(db, acc.txn, p)
    BY <2>1, PlanDmlOK
  <2>3. SameView(db, acc.txn, y)
    BY <2>1, ScannedIs
  <2> HIDE DEF p, y
  <2>4. ResultOK(r)
    BY <2>2, <2>3, StagePlanOK
  <2> HIDE DEF r
  <2>5. StageFrom(acc, s, kept).error = r.error /\ StageFrom(acc, s, kept).txn = r.txn
    BY <1>2 DEF StageFrom, StageNext, StagedNext, r, y, p
  <2> QED
    BY <2>4, <2>5 DEF ResultOK
<1> QED
  BY <1>1, <1>2

\* A script staged in a transaction leaves a sound copy.
LEMMA StageScriptOK ==
    ASSUME StorageOK(db), ForeignOK(foreign), TxnOK(db, txn), NEW n \in Nat, NEW script,
           Len(script) = n, \A i \in 1..n : IsStatement(script[i]), NEW kept
    PROVE  ResultOK(StageScript(script, kept))
<1>1. PICK after : StageScriptRun(script, kept, after)
  BY StageScriptLoop
<1> DEFINE S == {m \in 0..n : ResultOK(after[m])}
<1>2. after[0] = [error |-> "none", txn |-> txn, tables |-> {}, keys |-> <<>>]
      /\ StageScript(script, kept) = after[n]
      /\ \A m \in 1..n : after[m] = StageFrom(after[m - 1], script[m], kept)
  BY <1>1 DEF StageScriptRun
<1>3. 0 \in S
  <2>1. after[0].error = "none" /\ after[0].txn = txn
    BY <1>2
  <2>2. ResultOK(after[0])
    BY <2>1 DEF ResultOK, ReplyErrors, PlanErrors
  <2> QED
    BY <2>2
<1>4. ASSUME NEW m \in 0..(n - 1), m \in S PROVE m + 1 \in S
  <2>1. m + 1 \in 1..n /\ (m + 1) - 1 = m
    OBVIOUS
  <2>2. after[m + 1] = StageFrom(after[m], script[m + 1], kept)
    BY <1>2, <2>1
  <2>3. ResultOK(after[m]) /\ IsStatement(script[m + 1])
    BY <1>4, <2>1
  <2>4. ResultOK(after[m + 1])
    BY <2>2, <2>3, StageFromOK
  <2> QED
    BY <2>1, <2>4
<1>5. n \in 0..n
  OBVIOUS
<1> HIDE DEF S
<1>6. 0..n \subseteq S
  BY <1>3, <1>4, LoopInduction
<1> QED
  BY <1>2, <1>5, <1>6 DEF S

-----------------------------------------------------------------------------
(* The engine. *)

(***************************************************************************)
(* The committed storage is sound, its unique values taken once, and so is *)
(* an open transaction over it, its claims those of its entries, as long   *)
(* as the engine knows how its last commit ended.                          *)
(***************************************************************************)
DInv ==
    /\ foreign \in ForeignKeyChoices
    /\ ready \in BOOLEAN
    /\ StorageOK(db)
    /\ (ready /\ InTransaction) => TxnOK(db, txn)

\* What a step may do: keep the invariant, and report every change it commits.
ReportsStep ==
    /\ reply'.error \notin {"corrupt", "conflict"}
    /\ (ready' /\ db' # db) => \A t \in Tables :
         Differs(t) # {} =>
             /\ t \in reply'.tables
             /\ t \in DOMAIN reply'.keys =>
                 Differs(t) \subseteq reply'.keys[t] /\ Reportable(reply'.keys[t])
             /\ InTransaction => (t \in DOMAIN reply'.keys <=> Reportable(Differs(t)))

\* The foreign keys of the catalog are foreign keys.
LEMMA ForeignIsOK ==
    ASSUME foreign \in ForeignKeyChoices
    PROVE  ForeignOK(foreign)
BY DatabaseAssumption DEF ForeignOK

\* Answers name their errors, and the tables and keys they report.
LEMMA Replies ==
    ASSUME NEW script, NEW tables, NEW keys
    PROVE  /\ Nothing(script).error = "none"
           /\ Reported(script, tables, keys).error = "none"
           /\ Reported(script, tables, keys).tables = tables
           /\ Reported(script, tables, keys).keys = keys
BY DEF Nothing, Failure, Reported

\* A failure answers with its error.
LEMMA FailureIs ==
    ASSUME NEW script, NEW error
    PROVE  Failure(script, error).error = error
BY DEF Nothing, Failure

\* An answer has its result's error.
LEMMA AnswerIs ==
    ASSUME NEW script, NEW result, NEW tables, NEW keys
    PROVE  Answer(script, result, tables, keys).error = result.error
BY Replies, FailureIs DEF Answer

\* No error of a plan or of staging says that the trees disagree.
LEMMA NamesNoSurprise == \A e \in ReplyErrors : e \notin {"corrupt", "conflict"}
BY DEF ReplyErrors, PlanErrors, StageErrors

\* Publishing a candidate changes its revision and no row.
LEMMA PublishedOK ==
    ASSUME NEW s, StorageOK(s)
    PROVE  StorageOK(Published(s)) /\ \A t, k : CommittedRow(Published(s), t, k) = CommittedRow(s, t, k)
<1> DEFINE p == Published(s)
           v == db.revision + 1
<1>1. s = [revision |-> s.revision, rows |-> s.rows, counts |-> s.counts,
             entries |-> s.entries, entryCounts |-> s.entryCounts]
  BY DEF StorageOK
<1>2. p = [s EXCEPT !.revision = v]
  BY DEF Published
<1> HIDE DEF p, v
<1>3. p = [revision |-> v, rows |-> s.rows, counts |-> s.counts,
           entries |-> s.entries, entryCounts |-> s.entryCounts]
  BY <1>1, <1>2
<1>4. p = [revision |-> p.revision, rows |-> p.rows, counts |-> p.counts,
           entries |-> p.entries, entryCounts |-> p.entryCounts]
      /\ p.rows = s.rows /\ p.counts = s.counts /\ p.entries = s.entries /\ p.entryCounts = s.entryCounts
  BY <1>3
<1>5. \A t, k : CommittedRow(p, t, k) = CommittedRow(s, t, k)
  BY <1>4 DEF CommittedRow
<1>6. UniqueStored(s) => UniqueStored(p)
  BY <1>5 DEF UniqueStored
<1>7. StorageOK(p)
  BY <1>4, <1>6 DEF StorageOK
<1> QED
  BY <1>5, <1>7 DEF p

\* A published candidate whose report covers its differences is a change reported.
LEMMA PublishedReports ==
    ASSUME NEW s, NEW P, NEW T, NEW K, DiffersIn(db, s, P), Covers(T, K, P), Bounded(K),
           db' = Published(s), reply'.tables = T, reply'.keys = K, reply'.error = "none",
           InTransaction => \A t \in Tables :
               Differs(t) # {} => (t \in DOMAIN K <=> Reportable(Differs(t)))
    PROVE  ReportsStep
<1>1. StorageOK(s)
  BY DEF DiffersIn
<1>2. \A t, k : CommittedRow(db', t, k) = CommittedRow(s, t, k)
  BY <1>1, PublishedOK
<1>3. \A t \in Tables : \A k \in Differs(t) : <<t, k>> \in P
  BY <1>2 DEF DiffersIn, Differs
<1>4. \A t \in Tables : \A k \in Differs(t) : t \in T /\ (t \in DOMAIN K => k \in K[t])
  BY <1>3 DEF Covers
<1>5. \A t \in DOMAIN K : Reportable(K[t])
  BY DEF Bounded
<1> QED
  BY <1>4, <1>5 DEF ReportsStep

\* A script's statements, and a statement as a script of one.
ScriptOK(script) == Len(script) \in Nat /\ \A i \in 1..Len(script) : IsStatement(script[i])

\* Every script the engine is given is a sequence of statements.
LEMMA ScriptIs ==
    ASSUME NEW script \in Scripts \cup {<<s>> : s \in Statements}
    PROVE  ScriptOK(script)
<1>1. CASE script \in Scripts
  <2>1. script \in Seq(Range(script)) /\ \A s \in Range(script) : IsStatement(s)
    BY <1>1, DatabaseAssumption
  <2> QED
    BY <2>1 DEF ScriptOK, Range
<1>2. ASSUME NEW s \in Statements, script = <<s>> PROVE ScriptOK(script)
  <2>1. IsStatement(s)
    BY DatabaseAssumption
  <2>2. Len(script) = 1 /\ script[1] = s
    BY <1>2
  <2> QED
    BY <2>1, <2>2 DEF ScriptOK
<1> QED
  BY <1>1, <1>2

\* A statement staged in a transaction.
LEMMA StageStatementOK ==
    ASSUME DInv, ready, InTransaction, NEW s, NEW y, SameView(db, txn, y), NEW p, PlanOK(db, txn, p),
           StageStatement(s, y, p), UNCHANGED <<foreign, db, ready>>
    PROVE  DInv' /\ ReportsStep
<1> DEFINE r == StagePlan(y, p)
<1>1. ResultOK(r)
  BY StagePlanOK DEF DInv
<1>2. txn' = r.txn /\ reply'.error = r.error
  BY AnswerIs DEF StageStatement
<1> HIDE DEF r
<1>3. TxnOK(db, txn')
  BY <1>1, <1>2 DEF ResultOK
<1>4. reply'.error \notin {"corrupt", "conflict"}
  BY <1>1, <1>2, NamesNoSurprise DEF ResultOK
<1> QED
  BY <1>3, <1>4 DEF DInv, ReportsStep

\* A statement in a transaction keeps the invariant and commits nothing.
LEMMA ExecuteTransactionWriteOK ==
    ASSUME DInv, NEW s \in Statements, NEW kept, ExecuteTransactionWrite(s, kept)
    PROVE  DInv' /\ ReportsStep
<1>1. ready /\ InTransaction /\ UNCHANGED <<foreign, db, ready>>
      /\ StageStatement(s, Scanned(txn, s), PlanDml(db, txn, foreign, s, kept))
  BY DEF ExecuteTransactionWrite
<1>2. StorageOK(db) /\ TxnOK(db, txn) /\ ForeignOK(foreign) /\ IsStatement(s)
  BY <1>1, ForeignIsOK, DatabaseAssumption DEF DInv
<1>3. SameView(db, txn, Scanned(txn, s))
  BY <1>2, ScannedIs
<1>4. PlanOK(db, txn, PlanDml(db, txn, foreign, s, kept))
  BY <1>2, PlanDmlOK
<1> QED
  BY <1>1, <1>3, <1>4, StageStatementOK

\* A statement on the point path keeps the invariant and commits nothing.
LEMMA ExecutePointOK ==
    ASSUME DInv, NEW s \in Statements, ExecutePoint(s)
    PROVE  DInv' /\ ReportsStep
<1> DEFINE point == PlanPoint(db, txn, s)
<1>1. ready /\ InTransaction /\ UNCHANGED <<foreign, db, ready>> /\ point.error # "declined"
      /\ StageStatement(s, txn, Enforce(db, txn, foreign, point))
  BY DEF ExecutePoint
<1>2. StorageOK(db) /\ TxnOK(db, txn) /\ ForeignOK(foreign) /\ IsStatement(s)
  BY <1>1, ForeignIsOK, DatabaseAssumption DEF DInv
<1>3. PlanOK(db, txn, point)
  <2>1. 1 \in Nat /\ 1 <= 1
    OBVIOUS
  <2>2. point = Planned(db, txn, s, 1)
    BY <1>1, <1>2, <2>1, PointAgrees
  <2> HIDE DEF point
  <2>3. PlanOK(db, txn, Planned(db, txn, s, 1))
    BY <1>2, PlannedOK
  <2> QED
    BY <2>2, <2>3
<1> HIDE DEF point
<1>4. PlanOK(db, txn, Enforce(db, txn, foreign, point))
  BY <1>2, <1>3, EnforceOK
<1>5. SameView(db, txn, txn)
  BY <1>2 DEF SameView
<1> QED
  BY <1>1, <1>4, <1>5, StageStatementOK

\* A script in a transaction keeps the invariant and commits nothing.
LEMMA ScriptInTransactionOK ==
    ASSUME DInv, NEW script \in Scripts, NEW kept, ScriptInTransaction(script, kept)
    PROVE  DInv' /\ ReportsStep
<1> DEFINE r == StageScript(script, kept)
<1>1. ready /\ InTransaction /\ UNCHANGED <<foreign, db, ready>>
      /\ txn' = (IF r.error = "none" THEN r.txn ELSE txn) /\ reply' = Answer(script, r, r.tables, r.keys)
  BY DEF ScriptInTransaction
<1>2. StorageOK(db) /\ TxnOK(db, txn) /\ ForeignOK(foreign) /\ ScriptOK(script)
  BY <1>1, ForeignIsOK, ScriptIs DEF DInv
<1>3. ResultOK(r)
  BY <1>2, StageScriptOK DEF ScriptOK
<1> HIDE DEF r
<1>4. TxnOK(db, txn')
  BY <1>1, <1>2, <1>3 DEF ResultOK
<1>5. reply'.error \notin {"corrupt", "conflict"}
  BY <1>1, <1>3, AnswerIs, NamesNoSurprise DEF ResultOK
<1> QED
  BY <1>1, <1>4, <1>5 DEF DInv, ReportsStep

\* A script outside a transaction keeps the invariant and reports what it commits.
LEMMA ExecuteScriptOK ==
    ASSUME DInv, NEW script \in Scripts \cup {<<s>> : s \in Statements}, NEW kept,
           ExecuteScript(script, kept)
    PROVE  DInv' /\ ReportsStep
<1> DEFINE r == Candidate(script, kept)
<1>1. ready /\ ~InTransaction /\ UNCHANGED <<foreign, txn, ready, steps>>
      /\ reply' = Answer(script, r, r.tables, r.keys)
      /\ db' = (IF r.error = "none" /\ r.mutated THEN Published(r.db) ELSE db)
  BY DEF ExecuteScript
<1>2. StorageOK(db) /\ ForeignOK(foreign) /\ ScriptOK(script)
  BY ForeignIsOK, ScriptIs DEF DInv
<1>3. CandidateOK(r)
  BY <1>2, CandidateIs DEF ScriptOK
<1> HIDE DEF r
<1> PICK P : DiffersIn(db, r.db, P) /\ Covers(r.tables, r.keys, P)
  BY <1>3 DEF CandidateOK
<1>4. r.error \in PlanErrors /\ Bounded(r.keys) /\ StorageOK(r.db)
  BY <1>3 DEF CandidateOK, DiffersIn
<1>5. StorageOK(db')
  BY <1>1, <1>2, <1>4, PublishedOK
<1>6. ~InTransaction'
  BY <1>1 DEF InTransaction
<1>7. DInv'
  BY <1>1, <1>5, <1>6 DEF DInv
<1>8. CASE r.error = "none" /\ r.mutated
  <2>1. db' = Published(r.db)
    BY <1>1, <1>8
  <2>2. reply'.tables = r.tables /\ reply'.keys = r.keys /\ reply'.error = "none"
    BY <1>1, <1>8, Replies DEF Answer
  <2> QED
    BY <1>1, <1>4, <1>7, <2>1, <2>2, PublishedReports
<1>9. CASE ~(r.error = "none" /\ r.mutated)
  <2>1. db' = db
    BY <1>1, <1>9
  <2>2. reply'.error \notin {"corrupt", "conflict"}
    BY <1>1, <1>4, AnswerIs, NamesNoSurprise DEF ReplyErrors
  <2> QED
    BY <1>7, <2>1, <2>2 DEF ReportsStep
<1> QED
  BY <1>8, <1>9

\* A script whose commit has an unknown outcome leaves either root sound.
LEMMA ExecuteScriptUnknownOK ==
    ASSUME DInv, NEW script \in Scripts \cup {<<s>> : s \in Statements}, NEW kept,
           ExecuteScriptUnknown(script, kept)
    PROVE  DInv' /\ ReportsStep
<1> DEFINE r == Candidate(script, kept)
<1>1. ready' = FALSE /\ foreign' = foreign /\ reply' = Failure(script, "recovery")
      /\ db' \in {db, Published(r.db)}
  BY DEF ExecuteScriptUnknown
<1>2. StorageOK(db) /\ ForeignOK(foreign) /\ ScriptOK(script)
  BY ForeignIsOK, ScriptIs DEF DInv
<1>3. CandidateOK(r)
  BY <1>2, CandidateIs DEF ScriptOK
<1> HIDE DEF r
<1>4. StorageOK(r.db)
  BY <1>3 DEF CandidateOK, DiffersIn
<1>5. StorageOK(db')
  BY <1>1, <1>2, <1>4, PublishedOK
<1>6. reply'.error = "recovery"
  BY <1>1, FailureIs
<1> QED
  BY <1>1, <1>5, <1>6 DEF DInv, ReportsStep

\* A row that a transaction changed is not the committed one.
LEMMA ChangedRowsDiffer ==
    ASSUME NEW x, TxnOK(db, x), NEW t \in DOMAIN ChangedRows(x), NEW e \in Range(ChangedRows(x)[t])
    PROVE  Lookup(db, x, t, e.key) # CommittedRow(db, t, e.key)
<1> DEFINE o == x.tables[t]
           k == e.key
<1>1. t \in Tables /\ HasChanges(x, t) /\ ChangedRows(x)[t] = ChangedAmong(Ordered(o))
  BY DEF ChangedRows, ChangedEntries
<1>2. OverlayOK(db, t, o) /\ EntriesOK(db, t, o)
  BY <1>1 DEF TxnOK, OverlayOK
<1>3. e \in Range(o.rows) /\ e.entry.changed
  <2>1. ListsChanged(db, t, o, ChangedAmong(Ordered(o)))
    BY <1>1, <1>2, ChangedAmongIs
  <2> QED
    BY <1>1, <2>1 DEF ListsChanged
<1>4. k \in KeysIn(o) /\ EntryAt(o, k) = e.entry
  <2>1. PICK i \in DOMAIN o.rows : o.rows[i] = e
    BY <1>3 DEF Range
  <2> QED
    BY <1>2, <2>1, EntryAtIs
<1>5. IsEntry(db, t, k, EntryAt(o, k))
  BY <1>2, <1>4, EntryIs
<1>6. k \in ChangedKeysIn(o)
  BY <1>3, <1>4 DEF ChangedKeysIn
<1>7. Lookup(db, x, t, k) = EntryAt(o, k).next
  BY <1>1, <1>6, LookupChanged
<1> QED
  BY <1>3, <1>4, <1>5, <1>7 DEF IsEntry

\* A commit of the open transaction would write the rows it sees.
LEMMA CommitCandidateOK ==
    ASSUME DInv, ready, InTransaction
    PROVE  /\ CommitCandidate.error = "none"
           /\ DiffersIn(db, CommitCandidate.db, ReportedIn(txn.touched, ChangedRowKeys(ChangedRows(txn))))
           /\ \A t \in Tables : \A k : CommittedRow(CommitCandidate.db, t, k) = Lookup(db, txn, t, k)
<1> DEFINE c == ChangedRows(txn)
           r == CommitOf(c)
<1>1. StorageOK(db) /\ TxnOK(db, txn)
  BY DEF DInv
<1>2. ChangedOK(c)
  BY <1>1, ChangedRowsOK
<1>3. DOMAIN c \subseteq txn.touched
  BY <1>1, ChangedRowsOK
<1>4. \A t \in Tables : \A k : CommitsTo(c, t, k) = Lookup(db, txn, t, k)
  BY <1>1, ChangedRowsOK
<1>5. CommitCandidate = r
  BY DEF CommitCandidate
<1> HIDE DEF c
<1>6. r.error = "none"
  BY <1>1, <1>2, CommitOfOK
<1>7. DiffersIn(db, r.db, ReportedIn(DOMAIN c, ChangedRowKeys(c)))
  BY <1>1, <1>2, CommitOfOK
<1>8. \A t \in Tables : \A k : CommittedRow(r.db, t, k) = CommitsTo(c, t, k)
  BY <1>1, <1>2, CommitOfOK
<1>9. ReportedIn(DOMAIN c, ChangedRowKeys(c)) \subseteq ReportedIn(txn.touched, ChangedRowKeys(c))
  BY <1>3 DEF ReportedIn
<1> HIDE DEF r
<1>10. DiffersIn(db, r.db, ReportedIn(txn.touched, ChangedRowKeys(c)))
  BY <1>7, <1>9 DEF DiffersIn
<1> QED
  BY <1>4, <1>5, <1>6, <1>8, <1>10 DEF c

\* A commit keeps the invariant and reports what it writes.
LEMMA CommitTransactionOK ==
    ASSUME DInv, CommitTransaction
    PROVE  DInv' /\ ReportsStep
<1>1. ready /\ InTransaction /\ UNCHANGED <<foreign, ready>> /\ txn' = NoTransaction
  BY DEF CommitTransaction
<1>2. ~InTransaction'
  BY <1>1 DEF InTransaction
<1> DEFINE s == CommitCandidate.db
           K == ChangedRowKeys(ChangedRows(txn))
<1>3. DiffersIn(db, s, ReportedIn(txn.touched, K))
  BY <1>1, CommitCandidateOK
<1>4. CASE ~IsDirty(txn)
  <2>1. reply' = Nothing(<<>>) /\ db' = db
    BY <1>4 DEF CommitTransaction
  <2>2. reply'.error = "none"
    BY <2>1, Replies
  <2> QED
    BY <1>1, <1>2, <2>1, <2>2 DEF DInv, ReportsStep
<1>5. CASE IsDirty(txn)
  <2> DEFINE R == CommittedKeys(ChangedRows(txn))
             P == ReportedIn(txn.touched, K)
  <2>1. db' = Published(s) /\ reply' = Reported(<<>>, txn.touched, R)
    BY <1>5 DEF CommitTransaction
  <2>2. reply'.error = "none" /\ reply'.tables = txn.touched /\ reply'.keys = R
    BY <2>1, Replies
  <2>3. StorageOK(s)
    BY <1>3 DEF DiffersIn
  <2>4. StorageOK(db')
    BY <2>1, <2>3, PublishedOK
  <2>5. /\ DOMAIN R = {t \in DOMAIN K : Reportable(K[t])}
        /\ \A t \in DOMAIN R : R[t] = K[t]
    BY DEF CommittedKeys, ChangedRowKeys
  <2>6. ASSUME NEW t \in Tables, Differs(t) # {} PROVE t \in DOMAIN K /\ K[t] = Differs(t)
    <3>1. \A k : CommittedRow(db', t, k) = Lookup(db, txn, t, k)
      BY <1>1, <2>1, <2>3, PublishedOK, CommitCandidateOK
    <3>2. ASSUME NEW k \in Differs(t) PROVE t \in DOMAIN K /\ k \in K[t]
      <4>1. <<t, k>> \in P
        BY <1>3, <2>1, <2>3, PublishedOK DEF DiffersIn, Differs
      <4> QED
        BY <4>1, IsReported
    <3>3. ASSUME NEW k \in K[t], t \in DOMAIN K PROVE k \in Differs(t)
      <4>1. PICK e \in Range(ChangedRows(txn)[t]) : k = e.key
        BY <3>3 DEF ChangedRowKeys
      <4>2. t \in DOMAIN ChangedRows(txn)
        BY <3>3 DEF ChangedRowKeys
      <4>3. Lookup(db, txn, t, k) # CommittedRow(db, t, k)
        BY <1>1, <4>1, <4>2, ChangedRowsDiffer DEF DInv
      <4> QED
        BY <3>1, <4>3 DEF Differs, CommittedRow
    <3> QED
      BY <2>6, <3>2, <3>3
  <2>7. Covers(txn.touched, R, P) /\ Bounded(R)
    <3> HIDE DEF R, K
    <3> QED
      BY <2>5, IsReported DEF Covers, Bounded
  <2>8. \A t \in Tables : Differs(t) # {} => (t \in DOMAIN R <=> Reportable(Differs(t)))
    <3> HIDE DEF R, K
    <3> QED
      BY <2>5, <2>6
  <2> HIDE DEF s, K, R
  <2>9. DiffersIn(db, s, P)
    BY <1>3 DEF K
  <2> HIDE DEF P
  <2>10. ReportsStep
    BY <2>1, <2>2, <2>7, <2>8, <2>9, PublishedReports
  <2> QED
    BY <1>1, <1>2, <2>4, <2>10 DEF DInv
<1> QED
  BY <1>4, <1>5

\* A commit that fails leaves the transaction sound, and never because the trees disagree.
LEMMA CommitFailsOK ==
    ASSUME DInv, CommitFails
    PROVE  DInv' /\ ReportsStep
<1>1. ready /\ InTransaction /\ UNCHANGED <<foreign, db, txn, ready, steps>>
  BY DEF CommitFails
<1>2. CommitCandidate.error = "none"
  BY <1>1, CommitCandidateOK
<1>3. reply' = Failure(<<>>, "failed")
  BY <1>2 DEF CommitFails
<1>4. reply'.error = "failed"
  BY <1>3, FailureIs
<1> QED
  BY <1>1, <1>4 DEF DInv, ReportsStep, InTransaction

\* A commit whose outcome is unknown leaves either root sound.
LEMMA CommitUnknownOK ==
    ASSUME DInv, CommitUnknown
    PROVE  DInv' /\ ReportsStep
<1> DEFINE s == CommitCandidate.db
<1>1. ready /\ InTransaction /\ foreign' = foreign /\ ready' = FALSE
      /\ db' \in {db, Published(s)} /\ reply' = Failure(<<>>, "recovery")
  BY DEF CommitUnknown
<1>2. StorageOK(s)
  BY <1>1, CommitCandidateOK DEF DiffersIn
<1> HIDE DEF s
<1>3. StorageOK(db')
  BY <1>1, <1>2, PublishedOK DEF DInv
<1>4. reply'.error = "recovery"
  BY <1>1, FailureIs
<1> QED
  BY <1>1, <1>3, <1>4 DEF DInv, ReportsStep

\* Beginning, rolling back and reopening leave the committed rows alone.
LEMMA OthersOK ==
    ASSUME DInv, Begin \/ RollbackTransaction \/ Reopen
    PROVE  DInv' /\ ReportsStep
<1>1. UNCHANGED <<foreign, db>> /\ ready' \in BOOLEAN /\ reply' = Nothing(<<>>)
      /\ (txn' = NoTransaction \/ txn' = NewTransaction(db.revision))
  BY DEF Begin, RollbackTransaction, Reopen, DInv
<1>2. TxnOK(db, NewTransaction(db.revision))
  BY NewTransactionOK DEF SeesCommitted
<1>3. reply'.error = "none"
  BY <1>1, Replies
<1> QED
  BY <1>1, <1>2, <1>3 DEF DInv, ReportsStep, InTransaction

\* Every step keeps the invariant, and reports what it commits.
LEMMA StepOK ==
    ASSUME DInv, Next
    PROVE  DInv' /\ ReportsStep
<1>1. CASE Begin \/ RollbackTransaction \/ Reopen
  BY <1>1, OthersOK
<1>2. CASE CommitTransaction
  BY <1>2, CommitTransactionOK
<1>3. CASE CommitFails
  BY <1>3, CommitFailsOK
<1>4. CASE CommitUnknown
  BY <1>4, CommitUnknownOK
<1>5. ASSUME NEW s \in Statements, ExecutePoint(s) PROVE DInv' /\ ReportsStep
  BY <1>5, ExecutePointOK
<1>6. ASSUME NEW s \in Statements, NEW kept \in KeptChoices, ExecuteTransactionWrite(s, kept)
      PROVE  DInv' /\ ReportsStep
  BY <1>6, ExecuteTransactionWriteOK
<1>7. ASSUME NEW script \in Scripts \cup {<<s>> : s \in Statements}, NEW kept \in KeptChoices,
             ExecuteScript(script, kept)
      PROVE  DInv' /\ ReportsStep
  BY <1>7, ExecuteScriptOK
<1>8. ASSUME NEW script \in Scripts \cup {<<s>> : s \in Statements}, NEW kept \in KeptChoices,
             ExecuteScriptUnknown(script, kept)
      PROVE  DInv' /\ ReportsStep
  BY <1>8, ExecuteScriptUnknownOK
<1>9. ASSUME NEW script \in Scripts, NEW kept \in KeptChoices, ScriptInTransaction(script, kept)
      PROVE  DInv' /\ ReportsStep
  BY <1>9, ScriptInTransactionOK
<1> QED
  BY <1>1, <1>2, <1>3, <1>4, <1>5, <1>6, <1>7, <1>8, <1>9 DEF Next

\* A step that changes nothing keeps the invariant.
LEMMA StutterOK ==
    ASSUME DInv, UNCHANGED vars
    PROVE  DInv'
BY DEF DInv, vars, InTransaction

\* The invariant holds in every initial state.
LEMMA InitOK == Init => DInv
<1> SUFFICES ASSUME Init PROVE DInv
  OBVIOUS
<1>1. PICK contents \in InitialContents :
        ConstraintsHold(contents, Range(foreign)) /\ db = Storage(0, contents)
  BY DEF Init
<1>2. StorageOK(db)
  BY <1>1, StorageIsOK
<1> QED
  BY <1>2 DEF Init, DInv, InTransaction

-----------------------------------------------------------------------------
(* The theorems. *)

(***************************************************************************)
(* Whatever the catalog, the statements and the scripts, the committed     *)
(* storage stays sound, and the open transaction stays sound over it: each *)
(* staged entry starts from the committed row of its key, its row is one   *)
(* that key may hold, its place is unique, its counts are exact, and it    *)
(* claims the unique values that no row it leaves alone takes.             *)
(***************************************************************************)
THEOREM DatabaseInvariant == Spec => []DInv
<1>1. Init => DInv
  BY InitOK
<1>2. DInv /\ [Next]_vars => DInv'
  BY StepOK, StutterOK
<1> QED
  BY <1>1, <1>2, PTL DEF Spec

(***************************************************************************)
(* The row counts and the index trees of the committed storage mirror its  *)
(* rows after every commit, whether one statement, a script or a           *)
(* transaction wrote it (paged_script.rs apply_row_changes).               *)
(***************************************************************************)
THEOREM IndexesAreExact == Spec => []IndexesMirrorRows
<1>1. DInv => IndexesMirrorRows
  <2> SUFFICES ASSUME DInv PROVE IndexesMirrorRows
    OBVIOUS
  <2>1. StorageOK(db)
    BY DEF DInv
  <2>2. \A t \in Tables : db.counts[t] = Cardinality(DOMAIN db.rows[t])
    BY <2>1 DEF StorageOK
  <2>3. \A x \in Indexes : db.entries[x] = EntriesOf(x, db.rows[x.table])
    BY <2>1 DEF StorageOK
  <2>4. \A x \in Indexes : db.entryCounts[x] = Cardinality(EntriesOf(x, db.rows[x.table]))
    BY <2>1 DEF StorageOK
  <2> QED
    BY <2>2, <2>3, <2>4 DEF IndexesMirrorRows
<1> QED
  BY <1>1, DatabaseInvariant, PTL

\* The rows found by the keys a transaction can know of are the rows it sees.
LEMMA FoundIs ==
    ASSUME DInv, ready, InTransaction, NEW t \in Tables
    PROVE  Found[t] = Visible(db, txn, t)
<1> DEFINE K == DOMAIN db.rows[t] \cup KeysIn(txn.tables[t])
           L(k) == Lookup(db, txn, t, k)
<1>1. StorageOK(db) /\ TxnOK(db, txn)
  BY DEF DInv
<1>2. Found[t] = {L(k) : k \in K} \ {NoRow}
  BY DEF Found
<1>3. ASSUME NEW k \in K, L(k) # NoRow PROVE L(k) \in Visible(db, txn, t)
  BY <1>1, <1>3, LookupIs
<1>4. ASSUME NEW r \in Visible(db, txn, t) PROVE \E k \in K : r = L(k) /\ r # NoRow
  <2>1. r \in StoredRows(t) /\ L(KeyOf(t, r)) = r
    BY <1>4 DEF Visible
  <2>2. r # NoRow
    BY <2>1, StoredRowHasKey
  <2>3. KeyOf(t, r) \in K
    BY <2>1, <2>2 DEF Lookup, CommittedRow
  <2> QED
    BY <2>1, <2>2, <2>3
<1> QED
  BY <1>2, <1>3, <1>4

\* An index that is not declined delivers the visible rows of a value.
LEMMA VisitIndexIs ==
    ASSUME DInv, ready, InTransaction, NEW t \in Tables, NEW x \in TableIndexes(t), NEW value,
           ~HasNull(value), ReadsCommitted(txn, t), NEW q
    PROVE  q \in VisitIndex(db, txn, x, value).rows
             <=> q \in Visible(db, txn, t) /\ IndexValue(x, q) = value
<1>1. StorageOK(db) /\ TxnOK(db, txn) /\ RowsOK(t, db.rows[t])
  BY DEF DInv, StorageOK
<1>2. x \in Indexes /\ x.table = t
  BY DEF TableIndexes
<1>3. VisitIndex(db, txn, x, value).rows = {db.rows[t][k] : k \in CommittedOwners(db, x, value)}
  BY <1>2 DEF VisitIndex
<1>4. \A k : k \in CommittedOwners(db, x, value) <=>
               k \in DOMAIN db.rows[t] /\ IndexValue(x, db.rows[t][k]) = value
  BY <1>1, <1>2, CommittedOwnersAre DEF OwnersAre
<1>5. \A k : Lookup(db, txn, t, k) = CommittedRow(db, t, k)
  BY <1>1, ReadsCommittedIs
<1>6. ASSUME NEW k \in DOMAIN db.rows[t] PROVE db.rows[t][k] \in Visible(db, txn, t)
  <2>1. db.rows[t][k] \in StoredRows(t) /\ KeyOf(t, db.rows[t][k]) = k
    BY <1>1 DEF RowsOK
  <2> QED
    BY <1>5, <2>1 DEF Visible, CommittedRow
<1>7. ASSUME q \in Visible(db, txn, t)
      PROVE  KeyOf(t, q) \in DOMAIN db.rows[t] /\ db.rows[t][KeyOf(t, q)] = q
  <2>1. q \in StoredRows(t) /\ CommittedRow(db, t, KeyOf(t, q)) = q
    BY <1>5, <1>7 DEF Visible
  <2> QED
    BY <2>1, StoredRowHasKey DEF CommittedRow
<1> QED
  BY <1>3, <1>4, <1>6, <1>7

(***************************************************************************)
(* A row found by its key, the row count, and an index a view does not     *)
(* decline say what a scan of the view says, whatever a transaction has    *)
(* staged (paged_transaction.rs PagedReadView).                            *)
(***************************************************************************)
THEOREM EveryReaderAgrees == Spec => []ReadersAgree
<1>1. DInv => ReadersAgree
  <2> SUFFICES ASSUME DInv, ready, InTransaction, NEW t \in Tables
               PROVE  /\ TableRowCount(db, txn, t) = Len(VisitRows(db, txn, t))
                      /\ Seen[t] = Found[t]
                      /\ \A x \in TableIndexes(t) : \A r \in Seen[t] :
                          LET v == VisitIndex(db, txn, x, IndexValue(x, r))
                          IN  v.declined \/ HasNull(IndexValue(x, r))
                              \/ v.rows = {q \in Seen[t] : IndexValue(x, q) = IndexValue(x, r)}
    BY DEF ReadersAgree
  <2>1. StorageOK(db) /\ TxnOK(db, txn)
    BY DEF DInv
  <2>2. TableRowCount(db, txn, t) = Len(VisitRows(db, txn, t))
    BY <2>1, ScanCount
  <2>3. Seen[t] = Visible(db, txn, t)
    BY <2>1, VisitRowsAre DEF Seen, ScansVisible
  <2>4. Found[t] = Visible(db, txn, t)
    BY FoundIs
  <2>5. ASSUME NEW x \in TableIndexes(t), NEW r \in Seen[t], ~HasNull(IndexValue(x, r)),
               ~VisitIndex(db, txn, x, IndexValue(x, r)).declined
        PROVE  VisitIndex(db, txn, x, IndexValue(x, r)).rows
                 = {q \in Seen[t] : IndexValue(x, q) = IndexValue(x, r)}
    <3> DEFINE value == IndexValue(x, r)
               rows == VisitIndex(db, txn, x, value).rows
    <3>1. ReadsCommitted(txn, t)
      BY <2>5 DEF VisitIndex, TableIndexes
    <3>2. ~HasNull(value)
      BY <2>5
    <3> HIDE DEF value
    <3>3. \A q : q \in rows <=> q \in Visible(db, txn, t) /\ IndexValue(x, q) = value
      BY <3>1, <3>2, VisitIndexIs
    <3> HIDE DEF rows
    <3>4. rows = {q \in Seen[t] : IndexValue(x, q) = value}
      BY <2>3, <3>3
    <3> QED
      BY <3>4 DEF rows, value
  <2> QED
    BY <2>2, <2>3, <2>4, <2>5
<1> QED
  BY <1>1, DatabaseInvariant, PTL

(***************************************************************************)
(* The point path of a prepared statement plans the changes, and the       *)
(* refusals, of the general planner, whatever a transaction has staged     *)
(* (paged_engine.rs execute_point).                                        *)
(***************************************************************************)
THEOREM PointPathIsPlanner == Spec => []PointPathAgrees
<1>1. DInv => PointPathAgrees
  <2> SUFFICES ASSUME DInv, ready, InTransaction, NEW s \in Statements,
                      PlanPoint(db, txn, s).error # "declined"
               PROVE  Enforce(db, txn, foreign, PlanPoint(db, txn, s)) = PlanDml(db, txn, foreign, s, 99)
    BY DEF PointPathAgrees
  <2>1. StorageOK(db) /\ TxnOK(db, txn) /\ IsStatement(s)
    BY DatabaseAssumption DEF DInv
  <2>2. 99 \in Nat /\ 1 <= 99
    OBVIOUS
  <2>3. PlanPoint(db, txn, s) = Planned(db, txn, s, 99)
    BY <2>1, <2>2, PointAgrees
  <2>4. PlanDml(db, txn, foreign, s, 99) = Enforce(db, txn, foreign, Planned(db, txn, s, 99))
    BY DEF PlanDml, Planned
  <2> QED
    BY <2>3, <2>4
<1> QED
  BY <1>1, DatabaseInvariant, PTL

(***************************************************************************)
(* No commit meets a tree that does not hold what its changes replace.     *)
(* Every operation that changes the committed rows names each table it     *)
(* changed, and there either each key it changed, within the limit, or     *)
(* none; a commit names the keys of exactly the tables it changed in no    *)
(* more rows than the limit (paged_script.rs, statement.rs changed_keys,   *)
(* paged_transaction.rs changed_keys, common.ts mergeChangedKeys).         *)
(***************************************************************************)
THEOREM EveryChangeIsReported == Spec => ReportsEveryChange
<1>1. DInv /\ [Next]_vars => [ReportsStep]_vars
  BY StepOK
<1> QED
  BY <1>1, DatabaseInvariant, PTL DEF Spec, ReportsEveryChange, ReportsStep

(***************************************************************************)
(* What TotalsExact says of one table's staged entries: they start from    *)
(* the committed rows, there is one for each key, the running counts of    *)
(* deletes and of changed rows are theirs, and the order walks each once.  *)
(***************************************************************************)
EntriesExact(t) ==
    LET o == txn.tables[t]
    IN  /\ \A e \in Range(o.rows) : e.entry.old = CommittedRow(db, t, e.key)
        /\ Cardinality(KeysIn(o)) = Len(o.rows)
        /\ o.deletes = Cardinality({i \in DOMAIN o.rows : o.rows[i].entry.next = NoRow})
        /\ txn.changed[t] = Cardinality({i \in DOMAIN o.rows : o.rows[i].entry.changed})
        /\ Range(o.order) = DOMAIN o.rows

(***************************************************************************)
(* The running counts of a transaction are exact after any sequence of     *)
(* statements, whatever a statement staged before it or was refused        *)
(* (paged_transaction.rs Totals, TableOverlay).                            *)
(***************************************************************************)
THEOREM CountsAreExact ==
    Spec => []((ready /\ InTransaction) => \A t \in Tables : EntriesExact(t))
<1>1. DInv => ((ready /\ InTransaction) => \A t \in Tables : EntriesExact(t))
  <2> SUFFICES ASSUME DInv, ready, InTransaction, NEW t \in Tables PROVE EntriesExact(t)
    OBVIOUS
  <2> DEFINE o == txn.tables[t]
             n == Len(o.rows)
             D == {i \in DOMAIN o.rows : o.rows[i].entry.next = NoRow}
             C == {i \in DOMAIN o.rows : o.rows[i].entry.changed}
  <2>1. /\ OverlayOK(db, t, o) /\ EntriesOK(db, t, o) /\ OrderOK(o)
        /\ txn.changed[t] = Cardinality(ChangedKeysIn(o))
        /\ o.deletes = Cardinality(DeletedKeys(o))
    BY DEF DInv, TxnOK, OverlayOK
  <2> HIDE DEF o
  <2>2. /\ DOMAIN o.rows = 1..n /\ n \in Nat
        /\ \A i \in DOMAIN o.rows : EntryAt(o, o.rows[i].key) = o.rows[i].entry
    BY <2>1, EntryAtIs
  <2>3. KeysDiffer(o.rows, n)
    BY <2>1, <2>2 DEF EntriesOK, KeysDiffer
  <2>4. KeysIn(o) = KeysAt(o.rows, 1..n)
    BY <2>2 DEF KeysIn, KeysAt
  <2>5. DeletedKeys(o) = KeysAt(o.rows, D)
    <3>1. \A k : k \in DeletedKeys(o) <=> \E i \in DOMAIN o.rows : k = o.rows[i].key /\ i \in D
      BY <2>2 DEF DeletedKeys, KeysIn
    <3>2. \A k : k \in KeysAt(o.rows, D) <=> \E i \in DOMAIN o.rows : k = o.rows[i].key /\ i \in D
      BY DEF KeysAt
    <3> QED
      BY <3>1, <3>2
  <2>6. ChangedKeysIn(o) = KeysAt(o.rows, C)
    <3>1. \A k : k \in ChangedKeysIn(o) <=> \E i \in DOMAIN o.rows : k = o.rows[i].key /\ i \in C
      BY <2>2 DEF ChangedKeysIn, KeysIn
    <3>2. \A k : k \in KeysAt(o.rows, C) <=> \E i \in DOMAIN o.rows : k = o.rows[i].key /\ i \in C
      BY DEF KeysAt
    <3> QED
      BY <3>1, <3>2
  <2>7. D \in SUBSET (1..n) /\ C \in SUBSET (1..n) /\ 1..n \in SUBSET (1..n)
    BY <2>2
  <2>8. \A e \in Range(o.rows) : e.entry.old = CommittedRow(db, t, e.key)
    <3>1. \A e \in Range(o.rows) : e \in StagedEntries(db, t)
      BY <2>1 DEF EntriesOK, Range
    <3> QED
      BY <3>1, StagedEntryIs
  <2>9. Range(o.order) = DOMAIN o.rows
    BY <2>1, <2>2 DEF OrderOK
  <2> HIDE DEF D, C
  <2>10. Cardinality(KeysIn(o)) = n
    <3> DEFINE all == 1..n
    <3>1. Cardinality(all) = n
      BY <2>2, FS_Interval
    <3> HIDE DEF n
    <3>2. AsMany(KeysAt(o.rows, all), all)
      BY <2>2, <2>3, <2>7, CountKeys
    <3> QED
      BY <2>4, <3>1, <3>2 DEF AsMany
  <2> HIDE DEF n
  <2>11. o.deletes = Cardinality(D)
    <3>1. AsMany(KeysAt(o.rows, D), D)
      BY <2>2, <2>3, <2>7, CountKeys
    <3> QED
      BY <2>1, <2>5, <3>1 DEF AsMany
  <2>12. txn.changed[t] = Cardinality(C)
    <3>1. AsMany(KeysAt(o.rows, C), C)
      BY <2>2, <2>3, <2>7, CountKeys
    <3> QED
      BY <2>1, <2>6, <3>1 DEF AsMany
  <2> QED
    BY <2>8, <2>9, <2>10, <2>11, <2>12 DEF EntriesExact, o, n, D, C
<1> QED
  BY <1>1, DatabaseInvariant, PTL

-----------------------------------------------------------------------------
(* The constraints a table states of its rows. *)

(***************************************************************************)
(* The rows of each table are ones it may hold, one for each primary key   *)
(* and one for each value of a unique index.  A transaction checks its     *)
(* claims against those it keeps and a commit then writes unchecked, while *)
(* a script is checked against the trees: whichever wrote them, this holds *)
(* of the committed rows, and of the rows a transaction sees at any moment *)
(* (paged_transaction.rs validate_patch, paged_script.rs                   *)
(* validate_changed_unique_indexes).                                       *)
(***************************************************************************)
RowsAreAllowed(contents) ==
    /\ KeysAreUnique(contents)
    /\ UniqueHolds(contents)
    /\ \A t \in Tables : \A r \in contents[t] : RowIsValid(t, r)
RowsMeetTheirTables ==
    /\ RowsAreAllowed(Contents(db))
    /\ (ready /\ InTransaction) => RowsAreAllowed(Seen)

\* The rows a sound transaction sees are ones their tables may hold together.
LEMMA ViewIsAllowed ==
    ASSUME StorageOK(db), NEW x, TxnOK(db, x), NEW contents,
           \A t \in Tables : \A r \in contents[t] : r \in Visible(db, x, t)
    PROVE  RowsAreAllowed(contents)
<1> DEFINE L(t, k) == Lookup(db, x, t, k)
<1>1. ASSUME NEW t \in Tables, NEW r \in contents[t]
      PROVE  r \in StoredRows(t) /\ L(t, KeyOf(t, r)) = r /\ r # NoRow
  <2>1. r \in StoredRows(t) /\ L(t, KeyOf(t, r)) = r
    BY DEF Visible
  <2> QED
    BY <2>1, StoredRowHasKey
<1>2. \A t \in Tables : \A s, k, j : Takes(t, L(t, k), s) /\ Takes(t, L(t, j), s) => k = j
  BY ViewIsUnique
<1> HIDE DEF L
<1>3. KeysAreUnique(contents)
  BY <1>1 DEF KeysAreUnique
<1>4. ASSUME NEW i \in Indexes, i.unique, NEW r \in contents[i.table], NEW q \in contents[i.table],
             r # q, Project(r, i.columns) = Project(q, i.columns), ~HasNull(Project(r, i.columns))
      PROVE  FALSE
  <2> DEFINE t == i.table
             v == Project(r, i.columns)
             s == [index |-> i, value |-> v]
  <2>1. t \in Tables
    BY CatalogAssumption
  <2>2. s = [index |-> s.index, value |-> s.value] /\ s.index = i /\ s.value = v
    OBVIOUS
  <2>3. v = IndexValue(i, r) /\ v = IndexValue(i, q) /\ ~HasNull(v)
    BY <1>4 DEF IndexValue
  <2>4. r # NoRow /\ q # NoRow /\ L(t, KeyOf(t, r)) = r /\ L(t, KeyOf(t, q)) = q
    BY <1>1, <2>1
  <2>5. i \in Indexes /\ i.table = t /\ i.unique
    BY <1>4
  <2> HIDE DEF s, v, t
  <2>6. Takes(t, r, s) /\ Takes(t, q, s)
    BY <2>2, <2>3, <2>4, <2>5, TakesIs
  <2>7. KeyOf(t, r) = KeyOf(t, q)
    BY <1>2, <2>1, <2>4, <2>6
  <2> QED
    BY <1>4, <2>4, <2>7
<1>5. UniqueHolds(contents)
  BY <1>4 DEF UniqueHolds
<1>6. \A t \in Tables : \A r \in contents[t] : RowIsValid(t, r)
  BY <1>1 DEF StoredRows
<1> QED
  BY <1>3, <1>5, <1>6 DEF RowsAreAllowed

\* What is committed is what a new transaction sees.
LEMMA ContentsAreSeen ==
    ASSUME StorageOK(db), NEW x, x = NewTransaction(db.revision), NEW t \in Tables, NEW r \in Contents(db)[t]
    PROVE  r \in Visible(db, x, t)
<1>1. PICK k \in DOMAIN db.rows[t] : r = db.rows[t][k]
  BY DEF Contents
<1>2. RowsOK(t, db.rows[t])
  BY DEF StorageOK
<1>3. r \in StoredRows(t) /\ KeyOf(t, r) = k
  BY <1>1, <1>2 DEF RowsOK
<1>4. CommittedRow(db, t, k) = r
  BY <1>1 DEF CommittedRow
<1>5. Lookup(db, x, t, k) = CommittedRow(db, t, k)
  BY NewTransactionOK DEF SeesCommitted
<1> QED
  BY <1>3, <1>4, <1>5 DEF Visible

(***************************************************************************)
(* However rows are written, no table holds or shows two rows of a primary *)
(* key or of a value of a unique index, or a NULL where it may not.        *)
(* "Staging validated them, statement by statement, ... so both still      *)
(* hold" (paged_script.rs execute_changed_rows): a commit checks no unique *)
(* index, and needs not.                                                   *)
(***************************************************************************)
THEOREM RowsStayAllowed == Spec => []RowsMeetTheirTables
<1>1. DInv => RowsMeetTheirTables
  <2> SUFFICES ASSUME DInv PROVE RowsMeetTheirTables
    OBVIOUS
  <2>1. StorageOK(db)
    BY DEF DInv
  <2>2. RowsAreAllowed(Contents(db))
    <3> DEFINE x == NewTransaction(db.revision)
    <3>1. TxnOK(db, x)
      BY NewTransactionOK DEF SeesCommitted
    <3> HIDE DEF x
    <3>2. \A t \in Tables : \A r \in Contents(db)[t] : r \in Visible(db, x, t)
      BY <2>1, ContentsAreSeen DEF x
    <3> QED
      BY <2>1, <3>1, <3>2, ViewIsAllowed
  <2>3. ASSUME ready, InTransaction PROVE RowsAreAllowed(Seen)
    <3>1. TxnOK(db, txn)
      BY <2>3 DEF DInv
    <3>2. \A t \in Tables : Seen[t] = Visible(db, txn, t)
      BY <2>1, <3>1, VisitRowsAre DEF Seen, ScansVisible
    <3> QED
      BY <2>1, <3>1, <3>2, ViewIsAllowed
  <2> QED
    BY <2>2, <2>3 DEF RowsMeetTheirTables
<1> QED
  BY <1>1, DatabaseInvariant, PTL

-----------------------------------------------------------------------------
(* Whole transactions. *)

\* The rows a transaction finds by the keys it can know of.
ViewOf(storage, x) ==
    [t \in Tables |->
        {Lookup(storage, x, t, k) : k \in DOMAIN storage.rows[t] \cup KeysIn(x.tables[t])} \ {NoRow}]

\* They are the rows it finds by any key.
LEMMA ViewOfIs ==
    ASSUME NEW storage, NEW x, NEW t \in Tables, NEW r
    PROVE  r \in ViewOf(storage, x)[t] <=> r # NoRow /\ \E k : Lookup(storage, x, t, k) = r
<1>1. r \in ViewOf(storage, x)[t] <=>
        /\ r # NoRow
        /\ \E k \in DOMAIN storage.rows[t] \cup KeysIn(x.tables[t]) : Lookup(storage, x, t, k) = r
  BY DEF ViewOf
<1>2. ASSUME NEW k, Lookup(storage, x, t, k) # NoRow
      PROVE  k \in DOMAIN storage.rows[t] \cup KeysIn(x.tables[t])
  BY <1>2 DEF Lookup, CommittedRow
<1> QED
  BY <1>1, <1>2

\* What is found under each key says what is found.
LEMMA SameFound ==
    ASSUME NEW a, NEW x, NEW b, NEW y,
           \A t \in Tables : \A k : Lookup(b, y, t, k) = Lookup(a, x, t, k)
    PROVE  ViewOf(b, y) = ViewOf(a, x)
<1>1. ASSUME NEW t \in Tables PROVE ViewOf(b, y)[t] = ViewOf(a, x)[t]
  <2>1. \A r : r \in ViewOf(b, y)[t] <=> r \in ViewOf(a, x)[t]
    BY ViewOfIs
  <2> QED
    BY <2>1
<1>2. ViewOf(b, y) = [t \in Tables |-> ViewOf(b, y)[t]] /\ ViewOf(a, x) = [t \in Tables |-> ViewOf(a, x)[t]]
  BY DEF ViewOf
<1> QED
  BY <1>1, <1>2

\* A storage whose rows are those a transaction finds holds what it sees.
LEMMA ContentsFound ==
    ASSUME NEW b, StorageOK(b), NEW a, NEW x,
           \A t \in Tables : \A k : CommittedRow(b, t, k) = Lookup(a, x, t, k)
    PROVE  Contents(b) = ViewOf(a, x)
<1>1. ASSUME NEW t \in Tables PROVE Contents(b)[t] = ViewOf(a, x)[t]
  <2>1. \A r : r \in Contents(b)[t] <=> \E k \in DOMAIN b.rows[t] : b.rows[t][k] = r
    BY DEF Contents
  <2>2. \A k : /\ CommittedRow(b, t, k) # NoRow <=> k \in DOMAIN b.rows[t]
               /\ k \in DOMAIN b.rows[t] => CommittedRow(b, t, k) = b.rows[t][k]
    BY CommittedRowIs
  <2>3. \A r : r \in Contents(b)[t] <=> r # NoRow /\ \E k : CommittedRow(b, t, k) = r
    BY <2>1, <2>2
  <2>4. \A r : r \in ViewOf(a, x)[t] <=> r # NoRow /\ \E k : Lookup(a, x, t, k) = r
    BY ViewOfIs
  <2>5. \A r : r \in Contents(b)[t] <=> r \in ViewOf(a, x)[t]
    BY <2>3, <2>4
  <2> QED
    BY <2>5
<1>2. Contents(b) = [t \in Tables |-> Contents(b)[t]] /\ ViewOf(a, x) = [t \in Tables |-> ViewOf(a, x)[t]]
  BY DEF ViewOf, Contents
<1> QED
  BY <1>1, <1>2

(***************************************************************************)
(* A transaction is whole: it begins with the committed rows, a statement  *)
(* that is refused and a commit that fails leave what it sees, and a       *)
(* commit makes exactly what it sees the committed rows, or nothing of it  *)
(* even if the outcome is unknown (paged_engine.rs commit_transaction,     *)
(* paged_transaction.rs stage).                                            *)
(***************************************************************************)
WholeStep ==
    /\ (~InTransaction /\ InTransaction') => Found' = Contents(db)
    /\ (InTransaction /\ InTransaction' /\ reply'.error # "none") => Found' = Found
    /\ (InTransaction /\ Contents(db') # Contents(db)) => Contents(db') = Found
    /\ CommitTransaction => Contents(db') = Found
TransactionsAreWhole == [][WholeStep]_vars

\* A plan that is refused leaves the transaction as it was.
LEMMA RefusedPlan ==
    ASSUME NEW y, NEW p, StagePlan(y, p).error # "none"
    PROVE  StagePlan(y, p).txn = y
<1>1. \A e : Refused(y, e).txn = y
  BY DEF Refused
<1>2. \A z : Staged(z).error = "none"
  BY DEF Staged
<1>3. CASE p.error # "none"
  BY <1>1, <1>3 DEF StagePlan
<1>4. CASE p.error = "none"
  <2>1. StagePlan(y, p) = Stage(db, y, p.changes)
    BY <1>4 DEF StagePlan
  <2>2. \A z : StagePatch(y, z).error # "none" => StagePatch(y, z).txn = y
    BY <1>1, <1>2 DEF StagePatch
  <2> QED
    BY <1>1, <1>2, <2>1, <2>2 DEF Stage
<1> QED
  BY <1>3, <1>4

\* A statement that is refused leaves what the transaction sees.
LEMMA RefusedStatement ==
    ASSUME NEW s, NEW y, SameView(db, txn, y), NEW p, StageStatement(s, y, p), db' = db,
           reply'.error # "none"
    PROVE  Found' = Found
<1> DEFINE r == StagePlan(y, p)
<1>1. txn' = r.txn /\ reply'.error = r.error
  BY AnswerIs DEF StageStatement
<1>2. txn' = y
  BY <1>1, RefusedPlan
<1>3. \A t \in Tables : \A k : Lookup(db, y, t, k) = Lookup(db, txn, t, k)
  BY DEF SameView
<1>4. ViewOf(db, y) = ViewOf(db, txn)
  BY <1>3, SameFound
<1> QED
  BY <1>2, <1>4 DEF Found, ViewOf

\* A commit makes what the transaction sees the contents.
LEMMA CommitIsWhole ==
    ASSUME DInv, ready, InTransaction
    PROVE  /\ Contents(Published(CommitCandidate.db)) = Found
           /\ \A t \in Tables : \A k :
                CommittedRow(Published(CommitCandidate.db), t, k) = Lookup(db, txn, t, k)
<1> DEFINE s == CommitCandidate.db
           p == Published(s)
<1>1. DiffersIn(db, s, ReportedIn(txn.touched, ChangedRowKeys(ChangedRows(txn))))
  BY CommitCandidateOK
<1>2. \A t \in Tables : \A k : CommittedRow(s, t, k) = Lookup(db, txn, t, k)
  BY CommitCandidateOK
<1> HIDE DEF s
<1>3. StorageOK(s)
  BY <1>1 DEF DiffersIn
<1>4. StorageOK(p) /\ \A t, k : CommittedRow(p, t, k) = CommittedRow(s, t, k)
  BY <1>3, PublishedOK
<1> HIDE DEF p
<1>5. \A t \in Tables : \A k : CommittedRow(p, t, k) = Lookup(db, txn, t, k)
  BY <1>2, <1>4
<1>6. Contents(p) = ViewOf(db, txn)
  BY <1>4, <1>5, ContentsFound
<1> QED
  BY <1>5, <1>6 DEF p, s, Found, ViewOf

\* A transaction that touched no table sees what is committed.
LEMMA CleanIsCommitted ==
    ASSUME DInv, ready, InTransaction, ~IsDirty(txn)
    PROVE  Contents(db) = Found
<1>1. StorageOK(db) /\ TxnOK(db, txn)
  BY DEF DInv
<1>2. \A t \in Tables : txn.tables[t].rows = <<>>
  BY <1>1 DEF TxnOK, IsDirty
<1>3. \A t \in Tables : KeysIn(txn.tables[t]) = {}
  BY <1>2 DEF KeysIn
<1>4. \A t \in Tables : \A k : CommittedRow(db, t, k) = Lookup(db, txn, t, k)
  BY <1>3 DEF Lookup
<1>5. Contents(db) = ViewOf(db, txn)
  BY <1>1, <1>4, ContentsFound
<1> QED
  BY <1>5 DEF Found, ViewOf

\* A begun transaction sees the committed rows.
LEMMA BeginIsWhole ==
    ASSUME DInv, Begin
    PROVE  Found' = Contents(db)
<1> DEFINE x == NewTransaction(db.revision)
<1>1. txn' = x /\ db' = db
  BY DEF Begin
<1>2. \A t \in Tables : \A k : CommittedRow(db, t, k) = Lookup(db, x, t, k)
  BY NewTransactionOK DEF SeesCommitted
<1> HIDE DEF x
<1>3. Contents(db) = ViewOf(db, x)
  BY <1>2, ContentsFound DEF DInv
<1> QED
  BY <1>1, <1>3 DEF Found, ViewOf

\* A commit whose outcome is unknown writes all the transaction sees, or nothing.
LEMMA UnknownIsWhole ==
    ASSUME DInv, CommitUnknown
    PROVE  Found' = Found /\ (Contents(db') # Contents(db) => Contents(db') = Found)
<1> DEFINE p == Published(CommitCandidate.db)
<1>1. ready /\ InTransaction /\ txn' = txn /\ db' \in {db, p}
  BY DEF CommitUnknown
<1>2. Contents(p) = Found
  BY <1>1, CommitIsWhole
<1>3. \A t \in Tables : \A k : CommittedRow(p, t, k) = Lookup(db, txn, t, k)
  BY <1>1, CommitIsWhole
<1> HIDE DEF p
<1>4. \A t \in Tables : \A k : Lookup(p, txn, t, k) = Lookup(db, txn, t, k)
  BY <1>3 DEF Lookup
<1>5. ViewOf(p, txn) = ViewOf(db, txn)
  BY <1>4, SameFound
<1>6. CASE db' = db
  BY <1>1, <1>6 DEF Found
<1>7. CASE db' = p
  BY <1>1, <1>2, <1>5, <1>7 DEF Found, ViewOf
<1> QED
  BY <1>1, <1>6, <1>7

\* Every step leaves transactions whole.
LEMMA StepIsWhole ==
    ASSUME DInv, Next
    PROVE  WholeStep
<1>1. CASE CommitTransaction
  <2>1. ready /\ InTransaction /\ txn' = NoTransaction
    BY <1>1 DEF CommitTransaction
  <2>2. ~InTransaction'
    BY <2>1 DEF InTransaction
  <2>3. Contents(db') = Found
    <3>1. CASE ~IsDirty(txn)
      BY <1>1, <2>1, <3>1, CleanIsCommitted DEF CommitTransaction
    <3>2. CASE IsDirty(txn)
      BY <1>1, <2>1, <3>2, CommitIsWhole DEF CommitTransaction
    <3> QED
      BY <3>1, <3>2
  <2> QED
    BY <2>1, <2>2, <2>3 DEF WholeStep
<1> SUFFICES ASSUME ~CommitTransaction PROVE WholeStep
  BY <1>1
<1>2. CASE Begin
  <2>1. Found' = Contents(db) /\ db' = db /\ ~InTransaction
    BY <1>2, BeginIsWhole DEF Begin
  <2> QED
    BY <2>1 DEF WholeStep
<1>3. CASE CommitUnknown
  <2>1. InTransaction /\ Found' = Found /\ (Contents(db') # Contents(db) => Contents(db') = Found)
    BY <1>3, UnknownIsWhole DEF CommitUnknown
  <2> QED
    BY <2>1 DEF WholeStep
<1>4. CASE CommitFails
  <2>1. InTransaction /\ db' = db /\ txn' = txn
    BY <1>4 DEF CommitFails
  <2>2. Found' = Found
    BY <2>1 DEF Found
  <2> QED
    BY <2>1, <2>2 DEF WholeStep
<1>5. CASE RollbackTransaction \/ Reopen
  <2>1. db' = db /\ txn' = NoTransaction
    BY <1>5 DEF RollbackTransaction, Reopen
  <2>2. ~InTransaction'
    BY <2>1 DEF InTransaction
  <2> QED
    BY <2>1, <2>2 DEF WholeStep
<1>6. ASSUME NEW s \in Statements, ExecutePoint(s) PROVE WholeStep
  <2>1. ready /\ InTransaction /\ db' = db
        /\ StageStatement(s, txn, Enforce(db, txn, foreign, PlanPoint(db, txn, s)))
    BY <1>6 DEF ExecutePoint
  <2>2. SameView(db, txn, txn)
    BY <2>1 DEF SameView, DInv
  <2>3. reply'.error # "none" => Found' = Found
    BY <2>1, <2>2, RefusedStatement
  <2> QED
    BY <2>1, <2>3 DEF WholeStep
<1>7. ASSUME NEW s \in Statements, NEW kept \in KeptChoices, ExecuteTransactionWrite(s, kept)
      PROVE  WholeStep
  <2>1. ready /\ InTransaction /\ db' = db
        /\ StageStatement(s, Scanned(txn, s), PlanDml(db, txn, foreign, s, kept))
    BY <1>7 DEF ExecuteTransactionWrite
  <2>2. SameView(db, txn, Scanned(txn, s))
    BY <2>1, ScannedIs, DatabaseAssumption DEF DInv
  <2>3. reply'.error # "none" => Found' = Found
    BY <2>1, <2>2, RefusedStatement
  <2> QED
    BY <2>1, <2>3 DEF WholeStep
<1>8. ASSUME NEW script \in Scripts, NEW kept \in KeptChoices, ScriptInTransaction(script, kept)
      PROVE  WholeStep
  <2> DEFINE r == StageScript(script, kept)
  <2>1. InTransaction /\ db' = db /\ txn' = (IF r.error = "none" THEN r.txn ELSE txn)
        /\ reply' = Answer(script, r, r.tables, r.keys)
    BY <1>8 DEF ScriptInTransaction
  <2> HIDE DEF r
  <2>2. reply'.error = r.error
    BY <2>1, AnswerIs
  <2>3. reply'.error # "none" => Found' = Found
    BY <2>1, <2>2 DEF Found
  <2> QED
    BY <2>1, <2>3 DEF WholeStep
<1>9. ASSUME NEW script, NEW kept, ExecuteScript(script, kept) \/ ExecuteScriptUnknown(script, kept)
      PROVE  WholeStep
  <2>1. ~InTransaction /\ txn' = txn
    BY <1>9 DEF ExecuteScript, ExecuteScriptUnknown
  <2>2. ~InTransaction'
    BY <2>1 DEF InTransaction
  <2> QED
    BY <2>1, <2>2 DEF WholeStep
<1> QED
  BY <1>2, <1>3, <1>4, <1>5, <1>6, <1>7, <1>8, <1>9 DEF Next

(***************************************************************************)
(* A transaction is all or nothing whatever it staged: what a commit       *)
(* writes is what the transaction saw, row for row, and a refusal, a       *)
(* failure or an unknown outcome leaves what it sees (paged_engine.rs      *)
(* commit_transaction, paged_script.rs execute_changed_rows).              *)
(***************************************************************************)
THEOREM TransactionsStayWhole == Spec => TransactionsAreWhole
<1>1. DInv /\ [Next]_vars => [WholeStep]_vars
  BY StepIsWhole
<1> QED
  BY <1>1, DatabaseInvariant, PTL DEF Spec, TransactionsAreWhole, WholeStep

-----------------------------------------------------------------------------
(* The claims of a transaction. *)

(***************************************************************************)
(* What TotalsExact says of the claims: the values held by a key are those *)
(* the staged rows claim, each by the key of the row that claims it.  And  *)
(* the committed row that holds a claimed value is that row, or one the    *)
(* transaction changes.                                                    *)
(***************************************************************************)
ClaimsExact ==
    LET entries == UNION {{[table |-> t, key |-> e.key, entry |-> e.entry] :
                            e \in Range(txn.tables[t].rows)} : t \in Tables}
        claimed == {s \in DOMAIN txn.claims : txn.claims[s] # NoRow}
    IN  /\ claimed = Slots(entries)
        /\ \A e \in entries : \A c \in e.entry.cost.claims :
            /\ txn.claims[c.slot] = e.key
            /\ \A o \in c.owners : o = e.key \/ o \in ChangedKeysIn(txn.tables[e.table])

\* What an entry of a sound transaction claims is what its key is said to claim.
LEMMA ClaimIs ==
    ASSUME NEW x, TxnOK(db, x), NEW t \in Tables, NEW e \in Range(x.tables[t].rows), NEW s
    PROVE  (\E c \in e.entry.cost.claims : c.slot = s) <=> ClaimedBy(x.tables, t, e.key, s)
<1> DEFINE o == x.tables[t]
<1>1. EntriesOK(db, t, o)
  BY DEF TxnOK, OverlayOK
<1>2. PICK i \in DOMAIN o.rows : e = o.rows[i]
  BY DEF Range
<1>3. e \in StagedEntries(db, t)
  BY <1>1, <1>2 DEF EntriesOK
<1>4. e.entry = EntryFor(db, t, e.key, e.entry.next)
  BY <1>3, StagedEntryIs
<1>5. e.key \in KeysIn(o) /\ EntryAt(o, e.key) = e.entry
  BY <1>1, <1>2, EntryAtIs
<1>6. (\E c \in e.entry.cost.claims : c.slot = s) <=> e.entry.changed /\ Takes(t, e.entry.next, s)
  BY <1>4, EntryClaims
<1>7. ClaimedBy(x.tables, t, e.key, s) <=> e.key \in ChangedKeysIn(o) /\ Takes(t, EntryAt(o, e.key).next, s)
  BY DEF ClaimedBy
<1>8. e.key \in ChangedKeysIn(o) <=> e.entry.changed
  BY <1>5 DEF ChangedKeysIn
<1> QED
  BY <1>5, <1>6, <1>7, <1>8

\* A key that claims is the key of an entry.
LEMMA ClaimantIsStaged ==
    ASSUME NEW x, TxnOK(db, x), NEW t \in Tables, NEW k, NEW s, ClaimedBy(x.tables, t, k, s)
    PROVE  k \in Keys(t) /\ \E e \in Range(x.tables[t].rows) : e.key = k
<1> DEFINE o == x.tables[t]
           i == Find(o, k)
           e == o.rows[i]
<1>1. EntriesOK(db, t, o)
  BY DEF TxnOK, OverlayOK
<1>2. k \in KeysIn(o)
  BY DEF ClaimedBy, ChangedKeysIn
<1>3. i \in DOMAIN o.rows /\ e = [key |-> k, entry |-> EntryAt(o, k)] /\ k \in Keys(t)
  BY <1>1, <1>2, EntryAtIs
<1> HIDE DEF i
<1>4. e \in Range(o.rows)
  BY <1>3 DEF Range
<1> HIDE DEF e
<1>5. e.key = k
  BY <1>3
<1> QED
  BY <1>3, <1>4, <1>5

(***************************************************************************)
(* The unique values a transaction keeps as claimed are those its entries  *)
(* take, however rows gave values up, took them back or were staged again  *)
(* (paged_transaction.rs Totals, "exactly what validating the whole write  *)
(* set would find").                                                       *)
(***************************************************************************)
THEOREM ClaimsAreExact == Spec => []((ready /\ InTransaction) => ClaimsExact)
<1>1. DInv => ((ready /\ InTransaction) => ClaimsExact)
  <2> SUFFICES ASSUME DInv, ready, InTransaction PROVE ClaimsExact
    OBVIOUS
  <2> DEFINE all == UNION {{[table |-> t, key |-> e.key, entry |-> e.entry] :
                                e \in Range(txn.tables[t].rows)} : t \in Tables}
             claimed == {s \in DOMAIN txn.claims : txn.claims[s] # NoRow}
             Claims(e, s) == \E c \in e.entry.cost.claims : c.slot = s
  <2>1. StorageOK(db) /\ TxnOK(db, txn) /\ ClaimsOK(db, txn.tables, txn.claims)
    BY DEF DInv, TxnOK
  <2>2. ASSUME NEW f \in all
        PROVE  f.table \in Tables /\ \E e \in Range(txn.tables[f.table].rows) :
                                        f.key = e.key /\ f.entry = e.entry
    <3>1. PICK t \in Tables : \E e \in Range(txn.tables[t].rows) :
                f = [table |-> t, key |-> e.key, entry |-> e.entry]
      OBVIOUS
    <3>2. PICK e \in Range(txn.tables[t].rows) : f = [table |-> t, key |-> e.key, entry |-> e.entry]
      BY <3>1
    <3>3. f.table = t /\ f.key = e.key /\ f.entry = e.entry
      BY <3>2
    <3> QED
      BY <3>3
  <2>3. ASSUME NEW t \in Tables, NEW e \in Range(txn.tables[t].rows)
        PROVE  \E f \in all : f.table = t /\ f.key = e.key /\ f.entry = e.entry
    <3> DEFINE f == [table |-> t, key |-> e.key, entry |-> e.entry]
    <3>1. f \in all /\ f.table = t /\ f.key = e.key /\ f.entry = e.entry
      OBVIOUS
    <3> QED
      BY <3>1
  <2>4. \A s : s \in Slots(all) <=> \E f \in all : Claims(f, s)
    BY DEF Slots
  <2> HIDE DEF all
  <2>5. ASSUME NEW f \in all, NEW s PROVE Claims(f, s) <=> ClaimedBy(txn.tables, f.table, f.key, s)
    <3>1. PICK e \in Range(txn.tables[f.table].rows) : f.key = e.key /\ f.entry = e.entry
      BY <2>2
    <3>2. f.table \in Tables
      BY <2>2
    <3>3. (\E c \in e.entry.cost.claims : c.slot = s) <=> ClaimedBy(txn.tables, f.table, e.key, s)
      BY <2>1, <3>2, ClaimIs
    <3> QED
      BY <3>1, <3>3
  <2> HIDE DEF Claims
  <2>6. ASSUME NEW s, NEW t \in Tables, NEW k, ClaimedBy(txn.tables, t, k, s)
        PROVE  s \in Slots(all) /\ s \in claimed /\ txn.claims[s] = k
    <3>1. PICK e \in Range(txn.tables[t].rows) : e.key = k
      BY <2>1, <2>6, ClaimantIsStaged
    <3>2. PICK f \in all : f.table = t /\ f.key = k
      BY <2>3, <3>1
    <3>3. Claims(f, s)
      BY <2>5, <2>6, <3>2
    <3>4. s \in DOMAIN txn.claims /\ txn.claims[s] = k
      BY <2>1, <2>6 DEF ClaimsOK
    <3>5. k # NoRow
      <4>1. k \in Keys(t)
        BY <2>1, <2>6, ClaimantIsStaged
      <4>2. NoRow \notin Keys(t)
        BY CatalogAssumption DEF Keys
      <4> QED
        BY <4>1, <4>2
    <3> QED
      BY <2>4, <3>2, <3>3, <3>4, <3>5
  <2>7. ASSUME NEW s \in claimed PROVE s \in Slots(all)
    <3>1. PICK t \in Tables : ClaimedBy(txn.tables, t, txn.claims[s], s)
      BY <2>1 DEF ClaimsOK
    <3> QED
      BY <2>6, <3>1
  <2>8. ASSUME NEW s \in Slots(all) PROVE s \in claimed
    <3>1. PICK f \in all : Claims(f, s)
      BY <2>4
    <3>2. ClaimedBy(txn.tables, f.table, f.key, s) /\ f.table \in Tables
      BY <2>2, <2>5, <3>1
    <3> QED
      BY <2>6, <3>2
  <2>9. claimed = Slots(all)
    <3> HIDE DEF claimed
    <3> QED
      BY <2>7, <2>8
  <2>10. ASSUME NEW f \in all, NEW c \in f.entry.cost.claims
         PROVE  /\ txn.claims[c.slot] = f.key
                /\ \A o \in c.owners : o = f.key \/ o \in ChangedKeysIn(txn.tables[f.table])
    <3>1. Claims(f, c.slot)
      BY DEF Claims
    <3>2. ClaimedBy(txn.tables, f.table, f.key, c.slot) /\ f.table \in Tables
      BY <2>2, <2>5, <3>1
    <3>3. txn.claims[c.slot] = f.key
      BY <2>6, <3>2
    <3>4. c.owners = CommittedOwners(db, c.slot.index, c.slot.value)
      <4>1. PICK e \in Range(txn.tables[f.table].rows) : f.key = e.key /\ f.entry = e.entry
        BY <2>2
      <4>2. e \in StagedEntries(db, f.table)
        <5>1. txn.tables[f.table].rows \in Seq(StagedEntries(db, f.table))
          BY <2>1, <3>2 DEF TxnOK, OverlayOK, EntriesOK
        <5> QED
          BY <4>1, <5>1 DEF Range
      <4>3. e.entry = EntryFor(db, f.table, e.key, e.entry.next)
        BY <4>2, StagedEntryIs
      <4>4. \A d \in e.entry.cost.claims : d.owners = CommittedOwners(db, d.slot.index, d.slot.value)
        BY <4>3, EntryClaims
      <4> QED
        BY <4>1, <4>4
    <3>5. \A o : Takes(f.table, CommittedRow(db, f.table, o), c.slot) =>
                o = f.key \/ o \in ChangedKeysIn(txn.tables[f.table])
      BY <2>1, <3>2 DEF ClaimsOK
    <3>6. Takes(f.table, EntryAt(txn.tables[f.table], f.key).next, c.slot)
      BY <3>2 DEF ClaimedBy
    <3>7. \A o : o \in CommittedOwners(db, c.slot.index, c.slot.value)
                    <=> Takes(f.table, CommittedRow(db, f.table, o), c.slot)
      BY <2>1, <3>2, <3>6, OwnersTake
    <3> QED
      BY <3>3, <3>4, <3>5, <3>7
  <2> HIDE DEF claimed
  <2> QED
    BY <2>9, <2>10 DEF ClaimsExact, all, claimed
<1> QED
  BY <1>1, DatabaseInvariant, PTL
=============================================================================
