----------------------------- MODULE SchemaStore -----------------------------
(***************************************************************************)
(* A database whose schema changes: the confirmed catalog that PagedStorage*)
(* keeps in memory, the catalog records that the pager's active root       *)
(* holds, the scripts and schemas that turn one into the next, the commit  *)
(* that may end without an answer, and the open that reads the records     *)
(* back.  paged_script.rs (write_catalog), paged_storage.rs (load_catalog, *)
(* check) and paged_engine.rs (set_schema).                                *)
(***************************************************************************)
EXTENDS SchemaTarget

CONSTANTS
  Scripts,     \* the scripts a page may send: sequences of statements
  Targets,     \* the schemas a page may set
  MaxRevision, \* a bound on the number of publications
  MaxOpens     \* a bound on the number of times the database is opened again

VARIABLES
  db,   \* what PagedStorage keeps: the catalog, its revision, recovery_required
  disk, \* what the active root holds: catalog records, trees with pages, revision
  opens \* how often the database was opened

vars == <<db, disk, opens>>

-----------------------------------------------------------------------------
(* Catalog records.                                                        *)

HeaderKey == [kind |-> "header", name |-> NoTable]
TableKey(name) == [kind |-> "table", name |-> name]
IndexKey(name) == [kind |-> "index", name |-> name]

HeaderRecord(cat) ==
  [next |-> cat.next, version |-> cat.version,
   tables |-> Cardinality(DOMAIN cat.tables), indexes |-> Cardinality(DOMAIN cat.indexes)]

\* A table's record names its tree, its root and its counts around its schema; so does an index's.
TableRecord(table) ==
  [tree |-> table.tree, root |-> table.rows, count |-> table.count, body |-> table.schema]
IndexRecord(index) ==
  [tree |-> index.tree, root |-> index.entries, count |-> index.count, body |-> index.definition]

\* A mutant: a table whose rows stay where they are is taken to have kept its record.
SameTableRecordByRoot(left, right) ==
  left.tree = right.tree /\ left.rows = right.rows /\ left.count = right.count

SameTableRecord(left, right) == TableRecord(left) = TableRecord(right)
SameIndexRecord(left, right) == IndexRecord(left) = IndexRecord(right)

\* The records a commit deletes, and those it writes: the header, and what has changed.
DroppedKeys(base, cat) ==
  {TableKey(t) : t \in DOMAIN base.tables \ DOMAIN cat.tables}
    \cup {IndexKey(n) : n \in DOMAIN base.indexes \ DOMAIN cat.indexes}

WrittenTables(base, cat) ==
  {t \in DOMAIN cat.tables :
     t \notin DOMAIN base.tables \/ ~SameTableRecord(base.tables[t], cat.tables[t])}
WrittenIndexes(base, cat) ==
  {n \in DOMAIN cat.indexes :
     n \notin DOMAIN base.indexes \/ ~SameIndexRecord(base.indexes[n], cat.indexes[n])}

WriteCatalog(base, cat, records) ==
  LET dropped == DroppedKeys(base, cat)
      tables == WrittenTables(base, cat)
      indexes == WrittenIndexes(base, cat)
      written == {HeaderKey} \cup {TableKey(t) : t \in tables} \cup {IndexKey(n) : n \in indexes}
      value(k) == CASE k.kind = "header" -> HeaderRecord(cat)
                    [] k.kind = "table" -> TableRecord(cat.tables[k.name])
                    [] k.kind = "index" -> IndexRecord(cat.indexes[k.name])
  IN [ok |-> dropped \subseteq DOMAIN records,
      records |-> [k \in (DOMAIN records \ dropped) \cup written |->
                     IF k \in written THEN value(k) ELSE records[k]]]

-----------------------------------------------------------------------------
(* Reading the records back, and checking all that they name.              *)

HeaderIsValid(h) ==
  /\ h.next \in FirstUserTreeId..MaxTreeId
  /\ h.tables <= MaxCatalogTables /\ h.indexes <= MaxCatalogIndexes
  /\ h.next >= FirstUserTreeId + h.tables + h.indexes

\* A tree has a root exactly when it has entries.
ItemIsValid(record, size) ==
  /\ record.tree \in FirstUserTreeId..MaxTreeId
  /\ (record.count = 0) = (size = 0)

SchemaShapeIsValid(s) ==
  ValidateSchema([s EXCEPT !.foreign = <<>>]) /\ Len(s.columns) <= MaxColumns

TableRecordIsValid(k, record) ==
  /\ record.body.name = k.name
  /\ ItemIsValid(record, Cardinality(DOMAIN record.root))
  /\ SchemaShapeIsValid(record.body)

IndexRecordIsValid(k, record) ==
  /\ record.body.name = k.name
  /\ ItemIsValid(record, Cardinality(record.root))

KeysOf(records, kind) == {k \in DOMAIN records : k.kind = kind}

\* The records agree with their header, own each tree once, and index columns that exist.
RecordsAgree(records) ==
  LET header == records[HeaderKey]
      tables == KeysOf(records, "table")
      indexes == KeysOf(records, "index")
      trees == {records[k].tree : k \in tables \cup indexes}
  IN /\ HeaderKey \in DOMAIN records /\ HeaderIsValid(header)
     /\ \A k \in tables : TableRecordIsValid(k, records[k])
     /\ \A k \in indexes : IndexRecordIsValid(k, records[k])
     /\ header.tables = Cardinality(tables) /\ header.indexes = Cardinality(indexes)
     /\ trees \subseteq FirstUserTreeId..(header.next - 1)
     /\ Cardinality(trees) = Cardinality(tables) + Cardinality(indexes)
     /\ \A k \in indexes :
          LET definition == records[k].body
          IN /\ TableKey(definition.table) \in tables
             /\ ValidateIndex(definition, records[TableKey(definition.table)].body)

\* What an open keeps of the records.
LoadCatalog(records) ==
  LET names(kind) == {k.name : k \in KeysOf(records, kind)}
      table(r) == [schema |-> r.body, tree |-> r.tree, rows |-> r.root, count |-> r.count]
      index(r) == [definition |-> r.body, tree |-> r.tree, entries |-> r.root, count |-> r.count]
  IN [next |-> records[HeaderKey].next, version |-> records[HeaderKey].version,
      tables |-> [t \in names("table") |-> table(records[TableKey(t)])],
      indexes |-> [n \in names("index") |-> index(records[IndexKey(n)])]]

\* A stored row is what this engine would have written for it.
RowIsCanonical(schema, key, record) ==
  LET row == ToRow(schema, key, record)
  IN /\ Len(record) <= Len(BodyColumns(schema))
     /\ EncodeRow(schema, row) = record
     /\ \A name \in DOMAIN row : ValidateValue(ColumnOf(schema, name), row[name])

TableTreeIsValid(table) ==
  /\ \A k \in DOMAIN table.rows : RowIsCanonical(table.schema, k, table.rows[k])
  /\ table.count = Cardinality(DOMAIN table.rows)

\* An index holds the entry of each row that has one, and a unique index no tuple twice.
IndexTreeIsValid(table, index) ==
  /\ index.count = Cardinality({row \in RowsOf(table) : ~HasNull(Tuple(row, index.definition.columns))})
  /\ index.count = Cardinality(index.entries)
  /\ index.entries \subseteq Entries(index.definition, RowsOf(table), table.schema.key)
  /\ index.definition.unique => \A e, f \in index.entries : e.tuple = f.tuple => e = f

CheckCatalogContents(cat) ==
  /\ \A t \in DOMAIN cat.tables : TableTreeIsValid(cat.tables[t])
  /\ \A n \in DOMAIN cat.indexes :
       IndexTreeIsValid(cat.tables[cat.indexes[n].definition.table], cat.indexes[n])

-----------------------------------------------------------------------------
(* The database.                                                           *)

NoDisk == [records |-> <<>>, trees |-> {}, revision |-> 0]

Fresh == [next |-> FirstUserTreeId, version |-> 0, tables |-> <<>>, indexes |-> <<>>,
          revision |-> 0, recovery |-> FALSE]

Init == db = Fresh /\ disk = NoDisk /\ opens = 0

\* The candidate a script starts from: the confirmed catalog, over the active root's pages.
Candidate ==
  [next |-> db.next, version |-> db.version, tables |-> db.tables, indexes |-> db.indexes,
   trees |-> disk.trees, mutated |-> FALSE]

Confirmed(cat) ==
  [next |-> cat.next, version |-> cat.version, tables |-> cat.tables, indexes |-> cat.indexes,
   revision |-> db.revision + 1, recovery |-> FALSE]

Publication(cat) == WriteCatalog(db, cat, disk.records)
Published(cat) ==
  [records |-> Publication(cat).records, trees |-> cat.trees, revision |-> db.revision + 1]

\* A script that fails, or that changes nothing, publishes nothing: its candidate is dropped.
Publishes(result) ==
  /\ ~db.recovery /\ db.revision < MaxRevision
  /\ result.ok /\ result.cat.mutated /\ Publication(result.cat).ok

Commit(result) ==
  /\ Publishes(result)
  /\ db' = Confirmed(result.cat)
  /\ disk' = Published(result.cat)
  /\ UNCHANGED opens

\* The commit may or may not have become the active root; the storage must be opened again.
CommitUnknown(result) ==
  /\ Publishes(result)
  /\ db' = [db EXCEPT !.recovery = TRUE]
  /\ disk' \in {disk, Published(result.cat)}
  /\ UNCHANGED opens

Requests == {[kind |-> "script", script |-> s] : s \in Scripts}
              \cup {[kind |-> "schema", target |-> t, drop |-> d] : t \in Targets, d \in BOOLEAN}

Result(request) ==
  IF request.kind = "script" THEN ExecuteAll(Candidate, request.script)
  ELSE RunSchema(Candidate, request.target, request.drop)

ExecuteScript == \E s \in Scripts : Commit(ExecuteAll(Candidate, s))
SetSchema == \E t \in Targets, drop \in BOOLEAN : Commit(RunSchema(Candidate, t, drop))
LoseAnswer == opens < MaxOpens /\ \E request \in Requests : CommitUnknown(Result(request))

Reopen ==
  /\ opens < MaxOpens
  /\ opens' = opens + 1
  /\ IF disk.records = <<>> THEN db' = Fresh
     ELSE /\ RecordsAgree(disk.records)
          /\ LET cat == LoadCatalog(disk.records)
             IN db' = [next |-> cat.next, version |-> cat.version, tables |-> cat.tables,
                       indexes |-> cat.indexes, revision |-> disk.revision, recovery |-> FALSE]
  /\ UNCHANGED disk

Next == ExecuteScript \/ SetSchema \/ LoseAnswer \/ Reopen

Spec == Init /\ [][Next]_vars

-----------------------------------------------------------------------------
(* What a reader of the database may rely on.                              *)

OwnedTrees ==
  {db.tables[t].tree : t \in {n \in DOMAIN db.tables : db.tables[n].count > 0}}
    \cup {db.indexes[i].tree : i \in {n \in DOMAIN db.indexes : db.indexes[n].count > 0}}

\* The records that a commit leaves, of which it wrote only those that changed, open again as
\* the catalog the storage goes on with; every row and index entry they name passes the check of
\* the whole database; and no tree has kept its pages past its table or index.
RecordsOpenAsTheCatalog ==
  disk.records # <<>> =>
    /\ RecordsAgree(disk.records)
    /\ CheckCatalogContents(LoadCatalog(disk.records))
    /\ ~db.recovery =>
         /\ LET cat == LoadCatalog(disk.records)
            IN <<cat.next, cat.version, cat.tables, cat.indexes>>
                 = <<db.next, db.version, db.tables, db.indexes>>
         /\ disk.revision = db.revision
         /\ disk.trees = OwnedTrees

\* No statement, whatever it drops, renames or retypes, leaves a foreign key that names a table,
\* column or unique key that is not there, or a row that references nothing.
ForeignKeysStayMet ==
  \A t \in DOMAIN db.tables :
    LET schema == db.tables[t].schema
    IN \A i \in DOMAIN schema.foreign :
         /\ Resolves(db, schema, DefinitionsOn(db, t), schema.foreign[i])
         /\ Resolved(db, schema, schema.foreign[i]) = schema.foreign[i]
         /\ RowsReference(db, RowsOf(db.tables[t]), schema.foreign[i])

\* The rows that a reader of each table sees.
Seen(cat) == [t \in DOMAIN cat.tables |-> RowsOf(cat.tables[t])]

\* What a statement that succeeded is to have done to the rows of the tables.
Effect(cat, s) ==
  LET seen == Seen(cat)
      each(F(_)) == Put(seen, s.table, {F(row) : row \in seen[s.table]})
      default(name) == DefaultOf(ColumnOf(SchemaOf(cat, s.table), name))
  IN CASE s.kind = "create_table" ->
            IF HasTable(cat, s.schema.name) THEN seen ELSE Put(seen, s.schema.name, {})
       [] s.kind = "drop_table" -> Without(seen, {s.table})
       [] s.kind = "add_column" ->
            each(LAMBDA row : IF s.column.name \in DOMAIN row THEN row
                              ELSE Put(row, s.column.name, DefaultOf(s.column)))
       [] s.kind = "insert" ->
            Put(seen, s.table, seen[s.table] \cup
              {[name \in Names(SchemaOf(cat, s.table).columns) |->
                  IF name \in DOMAIN s.row THEN s.row[name] ELSE default(name)]})
       [] s.kind = "alter_table" ->
            (CASE s.change.kind = "rename_table" ->
                    Put(Without(seen, {s.table}), RenamedTable(s.table, s.change.name), seen[s.table])
               [] s.change.kind = "rename_column" ->
                    each(LAMBDA row : Put(Without(row, {s.change.from}), s.change.to, row[s.change.from]))
               [] s.change.kind = "drop_column" -> each(LAMBDA row : Without(row, {s.change.column}))
               [] OTHER -> seen)
       [] OTHER -> seen

\* What a schema that was set is to have done to them.
SchemaEffect(cat, target, drop) ==
  LET taken(t) == Existing(cat, target, t)
      former(t, name) == {r.from : r \in {x \in Range(RenamesIn(cat, target, t)) : x.to = name}}
      value(t, row, name) ==
        IF former(t, name) # {} THEN row[CHOOSE old \in former(t, name) : TRUE]
        ELSE IF name \in DOMAIN row THEN row[name]
        ELSE DefaultOf(ColumnOf(t.definition, name))
      left(t, row) == IF drop THEN {} ELSE DOMAIN row \ {r.from : r \in Range(RenamesIn(cat, target, t))}
      rows(t) == IF taken(t) = NoTable THEN {}
                 ELSE {[name \in Names(t.definition.columns) \cup left(t, row) |-> value(t, row, name)] :
                         row \in Seen(cat)[taken(t)]}
      untouched == IF drop THEN {}
                   ELSE DOMAIN cat.tables \ {taken(t) : t \in Range(target.tables)}
  IN [name \in TargetNames(target) \cup untouched |->
        IF name \in untouched THEN Seen(cat)[name]
        ELSE rows(CHOOSE t \in Range(target.tables) : t.definition.name = name)]

\* Whatever is asked next, rows keep their values: a record that leaves its trailing defaults out
\* reads the same after a column is added, dropped or renamed, or its default changed.
RowsKeepTheirValues ==
  ~db.recovery =>
    /\ \A script \in Scripts :
         Len(script) = 1 =>
           LET r == ExecuteAll(Candidate, script)
           IN r.ok => Seen(r.cat) = Effect(Candidate, script[1])
    /\ \A target \in Targets, drop \in BOOLEAN :
         LET r == RunSchema(Candidate, target, drop)
         IN r.ok => Seen(r.cat) = SchemaEffect(Candidate, target, drop)

\* The catalog has what a target declares: its tables, columns, indexes and keys, and no others
\* of theirs; a column or table that the target leaves out only while it was not to be dropped.
HasSchema(cat, target, drop) ==
  /\ cat.version = target.version
  /\ drop => DOMAIN cat.tables = TargetNames(target)
  /\ \A t \in Range(target.tables) :
       LET name == t.definition.name
           schema == SchemaOf(cat, name)
       IN /\ HasTable(cat, name)
          /\ schema.key = t.definition.key
          /\ Range(t.definition.columns) \subseteq Range(schema.columns)
          /\ drop => Names(schema.columns) = Names(t.definition.columns)
          /\ DefinitionsOn(cat, name) = Range(t.indexes)
          /\ Range(schema.foreign) = {Resolved(cat, schema, key) : key \in Range(t.definition.foreign)}

\* A schema that was set is the database's; and setting it again changes nothing, so that every
\* tab can set it as it starts.
SchemasAreReached ==
  ~db.recovery =>
    \A page \in Targets, drop \in BOOLEAN :
      LET r == RunSchema(Candidate, page, drop)
          target == [page EXCEPT !.tables = [i \in DOMAIN @ |-> TableTarget(@[i])]]
          again == RunSchema(r.cat, page, drop)
      IN r.ok => HasSchema(r.cat, target, drop) /\ again.ok /\ ~again.cat.mutated

=============================================================================
