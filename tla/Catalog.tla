------------------------------ MODULE Catalog ------------------------------
(***************************************************************************)
(* The catalog of a TinyJoin database and the statements that change it:   *)
(* crates/tinyjoin-core, paged_script.rs (the candidate's DDL),            *)
(* statement.rs (its planning), foreign_key.rs (what a key needs),         *)
(* storage.rs (valid definitions) and paged_codec.rs (how a record leaves  *)
(* out what the schema supplies).                                          *)
(*                                                                         *)
(* A statement maps a catalog to [ok, cat]: whether it ran, and the        *)
(* catalog the rest of its script then sees.  A tree is                    *)
(* its contents: a table's rows by primary key, an index's entries.  The   *)
(* root page of a tree is its contents too, and is absent exactly when     *)
(* there are none.                                                         *)
(***************************************************************************)
EXTENDS Integers, Sequences, FiniteSets, SequencesExt, FiniteSetsExt, Functions

CONSTANTS
  MaxCatalogTables,  \* MAX_CATALOG_TABLES
  MaxCatalogIndexes, \* MAX_CATALOG_INDEXES
  MaxTreeId,         \* MAX_TREE_ID
  MaxColumns,        \* MAX_COLUMNS
  ChunkEntries       \* how many entries an index build sorts at a time

ASSUME LimitsAssumption ==
  /\ {MaxCatalogTables, MaxCatalogIndexes, MaxTreeId, MaxColumns} \subseteq Nat
  /\ ChunkEntries \in Nat \ {0}

-----------------------------------------------------------------------------
(* Values, columns, rows.  A text is known by a letter and its length.     *)

CatalogTreeId == 1
FirstUserTreeId == CatalogTreeId + 1

Null == [type |-> "null", size |-> 0, at |-> 0]
NoDefault == [type |-> "none", size |-> 0, at |-> 0]
Integer(n) == [type |-> "integer", size |-> 0, at |-> n]
Text(n, length) == [type |-> "text", size |-> length, at |-> n]
Json(n) == [type |-> "json", size |-> 0, at |-> n]

\* A column; max is the n of VARCHAR(n), or 0.
Column(name, type, nullable, default, max) ==
  [name |-> name, type |-> type, nullable |-> nullable, default |-> default, max |-> max]

Names(columns) == {columns[i].name : i \in DOMAIN columns}
ColumnOf(schema, name) == SelectSeq(schema.columns, LAMBDA c : c.name = name)[1]
HasColumn(schema, name) == name \in Names(schema.columns)
TypeOf(schema, name) == ColumnOf(schema, name).type
DefaultOf(column) == IF column.default = NoDefault THEN Null ELSE column.default

\* Columns as a key tuple, which may be written in any order.
SameColumns(left, right) == Len(left) = Len(right) /\ Range(left) \subseteq Range(right)

ValidateValue(column, v) ==
  IF v = Null THEN column.nullable
  ELSE v.type = column.type /\ (column.max > 0 => v.size <= column.max)

-----------------------------------------------------------------------------
(* Stored records: the columns outside the primary key, in their order,    *)
(* less the trailing ones that hold their defaults.                        *)

BodyColumns(schema) == SelectSeq(schema.columns, LAMBDA c : c.name \notin Range(schema.key))

EncodeRow(schema, row) ==
  LET columns == BodyColumns(schema)
      kept == Max({0} \cup {i \in DOMAIN columns : row[columns[i].name] # DefaultOf(columns[i])})
  IN [i \in 1..kept |-> row[columns[i].name]]

ToRow(schema, key, record) ==
  LET columns == BodyColumns(schema)
      at(name, tuple) == CHOOSE i \in DOMAIN tuple : tuple[i] = name
      value(name) ==
        IF name \in Range(schema.key) THEN key[at(name, schema.key)]
        ELSE LET i == CHOOSE j \in DOMAIN columns : columns[j].name = name
             IN IF i <= Len(record) THEN record[i] ELSE DefaultOf(columns[i])
  IN [name \in Names(schema.columns) |-> value(name)]

RowsOf(table) == {ToRow(table.schema, k, table.rows[k]) : k \in DOMAIN table.rows}

Tuple(row, columns) == [i \in DOMAIN columns |-> row[columns[i]]]
HasNull(tuple) == Null \in Range(tuple)

\* The entry of a row in an index, which holds none for a tuple with a NULL.
Entries(definition, rows, key) ==
  {[tuple |-> Tuple(row, definition.columns), key |-> Tuple(row, key)] :
     row \in {r \in rows : ~HasNull(Tuple(r, definition.columns))}}

-----------------------------------------------------------------------------
(* Definitions a catalog may hold.                                         *)

ValidateSchema(s) ==
  /\ s.key # <<>> /\ IsInjective(s.key)
  /\ s.columns # <<>>
  /\ \A i, j \in DOMAIN s.columns : s.columns[i].name = s.columns[j].name => i = j
  /\ \A i \in DOMAIN s.columns :
       LET c == s.columns[i]
       IN /\ c.name \in Range(s.key) => ~c.nullable /\ c.type # "json"
          /\ c.default # NoDefault => ValidateValue(c, c.default)
  /\ Range(s.key) \subseteq Names(s.columns)
  /\ \A i, j \in DOMAIN s.foreign : s.foreign[i].name = s.foreign[j].name => i = j
  /\ \A i \in DOMAIN s.foreign :
       LET k == s.foreign[i]
       IN /\ k.columns # <<>> /\ Len(k.columns) = Len(k.referenced)
          /\ Range(k.columns) \subseteq Names(s.columns)

ValidateIndex(definition, schema) ==
  /\ definition.columns # <<>> /\ IsInjective(definition.columns)
  /\ \A name \in Range(definition.columns) :
       HasColumn(schema, name) /\ TypeOf(schema, name) # "json"

SchemaWithAddedColumn(schema, column) ==
  [schema EXCEPT !.columns = Append(@, column)]

ValidateAddedColumn(schema, column) ==
  /\ Len(schema.columns) < MaxColumns
  /\ ~HasColumn(schema, column.name)
  /\ ValidateSchema(SchemaWithAddedColumn(schema, column))

-----------------------------------------------------------------------------
(* The catalog a candidate changes.                                        *)

EmptyCatalog ==
  [next |-> FirstUserTreeId, version |-> 0, tables |-> <<>>, indexes |-> <<>>,
   trees |-> {}, mutated |-> FALSE]

Done(cat) == [ok |-> TRUE, cat |-> cat]
Refused == [ok |-> FALSE, cat |-> EmptyCatalog]

\* A statement that finds nothing to do, and one that has changed the catalog.
Unchanged(cat) == Done(cat)
Changed(cat) == Done([cat EXCEPT !.mutated = TRUE])

\* Each step of a script runs on what the one before it left.
Then(result, Step(_)) == IF result.ok THEN Step(result.cat) ELSE Refused

HasTable(cat, name) == name \in DOMAIN cat.tables
SchemaOf(cat, name) == cat.tables[name].schema
IndexesOn(cat, table) == {n \in DOMAIN cat.indexes : cat.indexes[n].definition.table = table}
DefinitionsOn(cat, table) == {cat.indexes[n].definition : n \in IndexesOn(cat, table)}

Put(f, x, v) == [y \in DOMAIN f \cup {x} |-> IF y = x THEN v ELSE f[y]]
Without(f, S) == [y \in DOMAIN f \ S |-> f[y]]

AllocateTreeId(cat, Use(_, _)) ==
  IF cat.next >= MaxTreeId THEN Refused
  ELSE Use([cat EXCEPT !.next = @ + 1], cat.next)

ReplaceSchema(cat, name, schema) == [cat EXCEPT !.tables[name].schema = schema]

-----------------------------------------------------------------------------
(* Foreign keys, as definitions.                                           *)

\* The table a key names: PostgreSQL's tools put its default schema before it.
Referenced(cat, schema, key) ==
  LET exists(name) == name = schema.name \/ HasTable(cat, name)
      plain == [key.references EXCEPT !.qualifier = ""]
  IN IF key.references.qualifier = "public" /\ ~exists(key.references) /\ exists(plain)
     THEN plain ELSE key.references

\* The key as the catalog keeps it, under the indexes `own` of its own table.
Resolved(cat, schema, key) ==
  LET references == Referenced(cat, schema, key)
      parent == IF references = schema.name THEN schema ELSE SchemaOf(cat, references)
  IN [key EXCEPT !.references = references,
                 !.referenced = IF @ = <<>> THEN parent.key ELSE @]

Resolves(cat, schema, own, key) ==
  LET references == Referenced(cat, schema, key)
      itself == references = schema.name
      parent == IF itself THEN schema ELSE SchemaOf(cat, references)
      indexes == IF itself THEN own ELSE DefinitionsOn(cat, references)
      referenced == Resolved(cat, schema, key).referenced
  IN /\ itself \/ HasTable(cat, references)
     /\ key.columns # <<>> /\ Len(referenced) = Len(key.columns)
     /\ IsInjective(key.columns)
     /\ \A i \in DOMAIN key.columns :
          /\ HasColumn(schema, key.columns[i]) /\ HasColumn(parent, referenced[i])
          /\ TypeOf(schema, key.columns[i]) = TypeOf(parent, referenced[i])
     /\ \/ SameColumns(parent.key, referenced)
        \/ \E d \in indexes : d.unique /\ SameColumns(d.columns, referenced)

\* The keys, each with its table, that reference a table and that Keep keeps.
Referencing(cat, table, Keep(_, _)) ==
  {<<child, key>> \in UNION {{child} \X Range(SchemaOf(cat, child).foreign) : child \in DOMAIN cat.tables} :
     key.references = table /\ Keep(child, key)}

\* Whether a key relies on a unique index: its parent's primary key would do as well.
Needs(parent, definition, key) ==
  /\ definition.unique
  /\ key.references = definition.table
  /\ ~SameColumns(parent.key, definition.columns)
  /\ SameColumns(key.referenced, definition.columns)

Needing(cat, definition) ==
  Referencing(cat, definition.table,
              LAMBDA child, key : Needs(SchemaOf(cat, definition.table), definition, key))

\* Whether every row of a table that a key covers references a row.
RowsReference(cat, rows, key) ==
  \A row \in rows :
    LET tuple == Tuple(row, key.columns)
    IN HasNull(tuple) \/ \E other \in RowsOf(cat.tables[key.references]) :
                             Tuple(other, key.referenced) = tuple

\* Each key of each table becomes Edit of it, unless Keep drops it.
EditForeignKeys(cat, Keep(_, _), Edit(_, _)) ==
  LET edited(t) == LET kept == SelectSeq(SchemaOf(cat, t).foreign, LAMBDA key : Keep(t, key))
                   IN [i \in DOMAIN kept |-> Edit(t, kept[i])]
  IN [cat EXCEPT !.tables =
        [t \in DOMAIN cat.tables |-> [cat.tables[t] EXCEPT !.schema.foreign = edited(t)]]]

KeepForeignKeys(cat, Keep(_, _)) == EditForeignKeys(cat, Keep, LAMBDA t, key : key)

-----------------------------------------------------------------------------
(* Indexes.                                                                *)

\* IndexBuild.write: the entries arrive in chunks, each checked against itself
\* and against what the index holds already.
IndexBuildChunk(unique, built, chunk) ==
  [ok |-> /\ built.ok
          /\ unique => /\ \A e, f \in chunk : e.tuple = f.tuple => e = f
                       /\ \A e \in chunk, f \in built.entries : e.tuple # f.tuple,
   entries |-> built.entries \cup chunk,
   count |-> built.count + Cardinality(chunk)]

\* The entries of a table's rows in chunks, in the order of the rows' keys.
Chunks(entries) ==
  LET ordered == SetToSortSeq(entries, LAMBDA e, f : e.key[1].at < f.key[1].at)
  IN [i \in 1..((Len(ordered) + ChunkEntries - 1) \div ChunkEntries) |->
        {ordered[j] : j \in {n \in DOMAIN ordered : (n - 1) \div ChunkEntries = i - 1}}]

CreateIndexOn(cat, definition, tree) ==
  LET table == cat.tables[definition.table]
      built == FoldSeq(LAMBDA chunk, acc : IndexBuildChunk(definition.unique, acc, chunk),
                       [ok |-> TRUE, entries |-> {}, count |-> 0],
                       Chunks(Entries(definition, RowsOf(table), table.schema.key)))
      index == [definition |-> definition, tree |-> tree,
                entries |-> built.entries, count |-> built.count]
  IN IF ~built.ok THEN Refused
     ELSE Done([cat EXCEPT !.indexes = Put(@, definition.name, index),
                           !.trees = IF built.entries = {} THEN @ ELSE @ \cup {tree}])

CreateIndex(cat, definition) ==
  IF Cardinality(DOMAIN cat.indexes) = MaxCatalogIndexes \/ ~HasTable(cat, definition.table)
  THEN Refused
  ELSE AllocateTreeId(cat, LAMBDA c, tree : CreateIndexOn(c, definition, tree))

CreateIndexes(cat, definitions) ==
  FoldLeft(LAMBDA acc, d : Then(acc, LAMBDA c : CreateIndex(c, d)), Done(cat), definitions)

DropIndexes(cat, names) ==
  [cat EXCEPT !.indexes = Without(@, names),
              !.trees = @ \ {cat.indexes[n].tree : n \in names}]

\* A foreign key that needs the index goes with it.
DropNeededIndex(cat, name) ==
  LET definition == cat.indexes[name].definition
      parent == SchemaOf(cat, definition.table)
  IN DropIndexes(KeepForeignKeys(cat, LAMBDA child, key : ~Needs(parent, definition, key)), {name})

ExecuteCreateIndex(cat, s) ==
  IF s.definition.name \in DOMAIN cat.indexes
  THEN IF s.ifNotExists THEN Unchanged(cat) ELSE Refused
  ELSE IF ~HasTable(cat, s.definition.table)
          \/ ~ValidateIndex(s.definition, SchemaOf(cat, s.definition.table)) THEN Refused
  ELSE Then(CreateIndex(cat, s.definition), Changed)

ExecuteDropIndex(cat, s) ==
  IF s.name \notin DOMAIN cat.indexes
  THEN IF s.ifExists THEN Unchanged(cat) ELSE Refused
  ELSE IF ~s.cascade /\ Needing(cat, cat.indexes[s.name].definition) # {} THEN Refused
  ELSE Changed(DropNeededIndex(cat, s.name))

-----------------------------------------------------------------------------
(* Tables.                                                                 *)

PlanCreateTable(cat, s) ==
  LET names == [i \in DOMAIN s.indexes |-> s.indexes[i].name]
      foreign == s.schema.foreign
  IN /\ IsInjective(names) /\ Range(names) \cap DOMAIN cat.indexes = {}
     /\ \A i \in DOMAIN s.indexes : ValidateIndex(s.indexes[i], s.schema)
     /\ \A i, j \in DOMAIN foreign : foreign[i].name = foreign[j].name => i = j
     /\ \A i \in DOMAIN foreign : Resolves(cat, s.schema, Range(s.indexes), foreign[i])

\* The schema with its foreign keys as the catalog keeps them.
ResolvedSchema(cat, schema) ==
  [schema EXCEPT !.foreign = [i \in DOMAIN @ |-> Resolved(cat, schema, @[i])]]

CreateTable(cat, schema, indexes, tree) ==
  LET table == [schema |-> schema, tree |-> tree, rows |-> <<>>, count |-> 0]
  IN CreateIndexes([cat EXCEPT !.tables = Put(@, schema.name, table)], indexes)

ExecuteCreateTable(cat, s) ==
  IF HasTable(cat, s.schema.name)
  THEN IF s.ifNotExists THEN Unchanged(cat) ELSE Refused
  ELSE IF ~PlanCreateTable(cat, s) THEN Refused
  ELSE LET schema == ResolvedSchema(cat, s.schema)
       IN IF ~ValidateSchema(schema) \/ Cardinality(DOMAIN cat.tables) = MaxCatalogTables
          THEN Refused
          ELSE Then(AllocateTreeId(cat, LAMBDA c, tree : CreateTable(c, schema, s.indexes, tree)),
                    Changed)

DropTable(cat, table) ==
  LET without == DropIndexes(cat, IndexesOn(cat, table))
  IN [without EXCEPT !.tables = Without(@, {table}), !.trees = @ \ {cat.tables[table].tree}]

ExecuteDropTable(cat, s) ==
  IF ~HasTable(cat, s.table)
  THEN IF s.ifExists THEN Unchanged(cat) ELSE Refused
  ELSE IF ~s.cascade /\ Referencing(cat, s.table, LAMBDA child, key : child # s.table) # {}
  THEN Refused
  ELSE Changed(DropTable(KeepForeignKeys(cat, LAMBDA child, key :
                            key.references # s.table \/ child = s.table), s.table))

\* Rows already stored leave the column out, and so hold its default.
ExecuteAddColumn(cat, s) ==
  IF ~HasTable(cat, s.table) THEN Refused
  ELSE LET table == cat.tables[s.table]
       IN IF HasColumn(table.schema, s.column.name)
          THEN IF s.ifNotExists THEN Unchanged(cat) ELSE Refused
          ELSE IF \/ ~ValidateAddedColumn(table.schema, s.column)
                  \/ ~s.column.nullable /\ DefaultOf(s.column) = Null /\ table.count > 0
          THEN Refused
          ELSE Changed(ReplaceSchema(cat, s.table, SchemaWithAddedColumn(table.schema, s.column)))

\* Every row is written again under the schema, into a tree of its own.
RebuildTable(cat, name, schema) ==
  LET old == cat.tables[name]
      row(k) == ToRow(old.schema, k, old.rows[k])
      fits(r) == \A i \in DOMAIN schema.columns :
                   ValidateValue(schema.columns[i], r[schema.columns[i].name])
      rebuilt(c, tree) ==
        [c EXCEPT !.tables[name] =
           [old EXCEPT !.schema = schema, !.tree = tree,
                       !.rows = [k \in DOMAIN old.rows |-> EncodeRow(schema, row(k))]],
                  !.trees = (@ \ {old.tree}) \cup {tree}]
  IN IF old.rows = <<>> THEN Done(ReplaceSchema(cat, name, schema))
     ELSE IF \E k \in DOMAIN old.rows : ~fits(row(k)) THEN Refused
     ELSE AllocateTreeId(cat, LAMBDA c, tree : Done(rebuilt(c, tree)))

-----------------------------------------------------------------------------
(* ALTER TABLE.                                                            *)

\* A table's new name keeps the schema that qualified its old one.
RenamedTable(table, name) == [qualifier |-> table.qualifier, name |-> name]

Renamed(columns, from, to) == [i \in DOMAIN columns |-> IF columns[i] = from THEN to ELSE columns[i]]

WithColumn(schema, name, Change(_)) ==
  [schema EXCEPT !.columns =
     [i \in DOMAIN @ |-> IF @[i].name = name THEN Change(@[i]) ELSE @[i]]]

\* altered_schema, for a change to columns that the schema has.
AlteredSchema(schema, change) ==
  CASE change.kind = "rename_column" ->
         LET own(key) ==
               [key EXCEPT !.columns = Renamed(@, change.from, change.to),
                           !.referenced = IF key.references = schema.name
                                          THEN Renamed(@, change.from, change.to) ELSE @]
         IN [WithColumn(schema, change.from, LAMBDA c : [c EXCEPT !.name = change.to])
               EXCEPT !.key = Renamed(@, change.from, change.to),
                      !.foreign = [i \in DOMAIN @ |-> own(@[i])]]
    [] change.kind = "set_default" ->
         WithColumn(schema, change.column, LAMBDA c : [c EXCEPT !.default = change.default])
    [] change.kind = "set_nullable" ->
         WithColumn(schema, change.column, LAMBDA c : [c EXCEPT !.nullable = change.nullable])
    [] change.kind = "restate_type" ->
         WithColumn(schema, change.column, LAMBDA c : [c EXCEPT !.max = change.max])
    [] change.kind = "drop_column" ->
         [schema EXCEPT !.columns = SelectSeq(@, LAMBDA c : c.name # change.column),
                        !.foreign = SelectSeq(@, LAMBDA key :
                           /\ change.column \notin Range(key.columns)
                           /\ ~(key.references = schema.name
                                  /\ change.column \in Range(key.referenced)))]
    [] change.kind = "drop_constraint" ->
         [schema EXCEPT !.foreign = SelectSeq(@, LAMBDA key : key.name # change.name)]

\* Whether the change names a column that the schema has, and leaves it valid.
Alters(schema, change) ==
  /\ change.kind = "rename_column" => ~HasColumn(schema, change.to) /\ HasColumn(schema, change.from)
  /\ change.kind \notin {"rename_column", "drop_constraint"} => HasColumn(schema, change.column)
  /\ change.kind = "drop_column" => change.column \notin Range(schema.key)
  /\ ValidateSchema(AlteredSchema(schema, change))

HasForeignKey(schema, name) == \E i \in DOMAIN schema.foreign : schema.foreign[i].name = name

DropConstraint(cat, table, change) ==
  LET known == change.name \in DOMAIN cat.indexes
      definition == cat.indexes[change.name].definition
  IN IF HasForeignKey(SchemaOf(cat, table), change.name)
     THEN IF Alters(SchemaOf(cat, table), change)
          THEN Changed(ReplaceSchema(cat, table, AlteredSchema(SchemaOf(cat, table), change)))
          ELSE Refused
     ELSE IF ~known \/ ~definition.unique \/ definition.table # table
     THEN IF change.ifExists THEN Unchanged(cat) ELSE Refused
     ELSE IF ~change.cascade /\ Needing(cat, definition) # {} THEN Refused
     ELSE Changed(DropNeededIndex(cat, change.name))

AddForeignKey(cat, table, change) ==
  LET schema == SchemaOf(cat, table)
      key == Resolved(cat, schema, change.key)
  IN IF \/ HasForeignKey(schema, change.key.name)
        \/ ~Resolves(cat, schema, DefinitionsOn(cat, table), change.key)
        \/ ~RowsReference(cat, RowsOf(cat.tables[table]), key)
     THEN Refused
     ELSE Changed(ReplaceSchema(cat, table, [schema EXCEPT !.foreign = Append(@, key)]))

RenameTable(cat, table, change) ==
  LET to == RenamedTable(table, change.name)
      moved == [cat.tables[table] EXCEPT !.schema.name = to]
      renamed == [cat EXCEPT
        !.tables = Put(Without(@, {table}), to, moved),
        !.indexes = [n \in DOMAIN @ |-> IF @[n].definition.table = table
                                        THEN [@[n] EXCEPT !.definition.table = to] ELSE @[n]]]
  IN IF HasTable(cat, to) THEN Refused
     ELSE Changed(EditForeignKeys(renamed, LAMBDA child, key : TRUE,
                    LAMBDA child, key : IF key.references = table
                                        THEN [key EXCEPT !.references = to] ELSE key))

\* A mutant: the keys of other tables go on naming the column as it was.
RenameColumnForgetsReferences(cat, table, change) ==
  LET schema == SchemaOf(cat, table)
      replaced == ReplaceSchema(cat, table, AlteredSchema(schema, change))
  IN IF ~Alters(schema, change) THEN Refused
     ELSE Changed([replaced EXCEPT !.indexes =
            [n \in DOMAIN @ |-> IF @[n].definition.table = table
                                THEN [@[n] EXCEPT !.definition.columns = Renamed(@, change.from, change.to)]
                                ELSE @[n]]])

RenameColumn(cat, table, change) ==
  LET schema == SchemaOf(cat, table)
      replaced == ReplaceSchema(cat, table, AlteredSchema(schema, change))
      renamed == [replaced EXCEPT !.indexes =
        [n \in DOMAIN @ |-> IF @[n].definition.table = table
                            THEN [@[n] EXCEPT !.definition.columns = Renamed(@, change.from, change.to)]
                            ELSE @[n]]]
  IN IF ~Alters(schema, change) THEN Refused
     ELSE Changed(EditForeignKeys(renamed, LAMBDA child, key : TRUE,
                    LAMBDA child, key :
                      IF key.references = table /\ child # table
                      THEN [key EXCEPT !.referenced = Renamed(@, change.from, change.to)] ELSE key))

\* The keys of other tables and the indexes on a column go with it.
DropColumn(cat, table, change) ==
  LET schema == SchemaOf(cat, table)
      references(child, key) ==
        child # table /\ key.references = table /\ change.column \in Range(key.referenced)
      unkeyed == KeepForeignKeys(cat, LAMBDA child, key : ~references(child, key))
      on == {n \in IndexesOn(cat, table) : change.column \in Range(cat.indexes[n].definition.columns)}
  IN IF ~HasColumn(schema, change.column) /\ change.ifExists THEN Unchanged(cat)
     ELSE IF \/ ~change.cascade /\ Referencing(cat, table, references) # {}
             \/ ~Alters(schema, change) THEN Refused
     ELSE Then(RebuildTable(DropIndexes(unkeyed, on), table, AlteredSchema(schema, change)), Changed)

\* A mutant: a new default is taken to concern only the rows to come.
NeedsRebuildUnlessDefault(schema, change) ==
  LET column == ColumnOf(schema, change.column)
  IN \/ change.kind = "set_nullable" /\ ~change.nullable
     \/ /\ change.kind = "restate_type"
        /\ change.max > 0 /\ (column.max = 0 \/ column.max > change.max)

\* Whether the change of a column has to write the table's rows again: they may have left the
\* column out, or hold what it may no longer hold.
NeedsRebuild(schema, change) ==
  LET column == ColumnOf(schema, change.column)
  IN \/ /\ change.kind = "set_default"
        /\ column.default # change.default /\ change.column \notin Range(schema.key)
     \/ change.kind = "set_nullable" /\ ~change.nullable
     \/ /\ change.kind = "restate_type"
        /\ change.max > 0 /\ (column.max = 0 \/ column.max > change.max)

AlterColumn(cat, table, change) ==
  LET schema == SchemaOf(cat, table)
      restates == change.kind = "restate_type"
  IN IF ~HasColumn(schema, change.column) THEN Refused
     ELSE IF restates /\ TypeOf(schema, change.column) # change.type THEN Refused
     ELSE IF restates /\ ColumnOf(schema, change.column).max = change.max THEN Unchanged(cat)
     ELSE IF ~Alters(schema, change) THEN Refused
     ELSE IF NeedsRebuild(schema, change)
     THEN Then(RebuildTable(cat, table, AlteredSchema(schema, change)), Changed)
     ELSE Changed(ReplaceSchema(cat, table, AlteredSchema(schema, change)))

ExecuteAlterTable(cat, s) ==
  LET change == s.change
  IN IF ~HasTable(cat, s.table) THEN Refused
     ELSE CASE change.kind = "disable_row_security" -> Unchanged(cat)
            [] change.kind = "drop_constraint" -> DropConstraint(cat, s.table, change)
            [] change.kind = "add_foreign_key" -> AddForeignKey(cat, s.table, change)
            [] change.kind = "rename_table" -> RenameTable(cat, s.table, change)
            [] change.kind = "rename_column" -> RenameColumn(cat, s.table, change)
            [] change.kind = "drop_column" -> DropColumn(cat, s.table, change)
            [] OTHER -> AlterColumn(cat, s.table, change)

-----------------------------------------------------------------------------
(* A script.                                                               *)

SetSchemaVersion(cat, s) ==
  Done([cat EXCEPT !.version = s.version, !.mutated = @ \/ s.version # cat.version])

\* The rows a table gets: planned against its schema, its unique indexes and its foreign keys.
ExecuteInsert(cat, s) ==
  LET table == cat.tables[s.table]
      row == [name \in Names(table.schema.columns) |->
                IF name \in DOMAIN s.row THEN s.row[name]
                ELSE DefaultOf(ColumnOf(table.schema, name))]
      key == Tuple(row, table.schema.key)
      added(n) == Entries(cat.indexes[n].definition, {row}, table.schema.key)
      grown == [cat EXCEPT
        !.tables[s.table].rows = Put(@, key, EncodeRow(table.schema, row)),
        !.tables[s.table].count = @ + 1,
        !.indexes = [n \in DOMAIN @ |->
           IF n \in IndexesOn(cat, s.table)
           THEN [@[n] EXCEPT !.entries = @ \cup added(n), !.count = @ + Cardinality(added(n))]
           ELSE @[n]],
        !.trees = @ \cup {table.tree}
                    \cup {cat.indexes[n].tree : n \in {i \in IndexesOn(cat, s.table) : added(i) # {}}}]
  IN IF ~HasTable(cat, s.table) \/ ~(DOMAIN s.row \subseteq Names(table.schema.columns)) THEN Refused
     ELSE IF \/ \E name \in DOMAIN row : ~ValidateValue(ColumnOf(table.schema, name), row[name])
             \/ key \in DOMAIN table.rows
             \/ \E n \in IndexesOn(cat, s.table) :
                  /\ cat.indexes[n].definition.unique
                  /\ \E e \in added(n), f \in cat.indexes[n].entries : e.tuple = f.tuple
             \/ \E i \in DOMAIN table.schema.foreign :
                  ~RowsReference(grown, {row}, table.schema.foreign[i])
     THEN Refused
     ELSE Changed(grown)

ExecuteWrite(cat, s) ==
  CASE s.kind = "create_table" -> ExecuteCreateTable(cat, s)
    [] s.kind = "create_index" -> ExecuteCreateIndex(cat, s)
    [] s.kind = "drop_table" -> ExecuteDropTable(cat, s)
    [] s.kind = "drop_index" -> ExecuteDropIndex(cat, s)
    [] s.kind = "add_column" -> ExecuteAddColumn(cat, s)
    [] s.kind = "alter_table" -> ExecuteAlterTable(cat, s)
    [] s.kind = "version" -> SetSchemaVersion(cat, s)
    [] s.kind = "insert" -> ExecuteInsert(cat, s)

\* Every statement on what the one before it left; the first that fails ends the script.
ExecuteAll(cat, statements) ==
  FoldLeft(LAMBDA acc, s : Then(acc, LAMBDA c : ExecuteWrite(c, s)),
           Done([cat EXCEPT !.mutated = FALSE]), statements)

=============================================================================
